---- MODULE Spec2Model ----
(***************************************************************************)
(* State-machine model of contracts/ReFi_Infra_DAO.sol (ReFiInfraDAOFHE):  *)
(* role registry and pause switch, per-principal cooldowns, batch          *)
(* lifecycle, the two encrypted per-batch accumulators, and the            *)
(* decryption request / callback round trip with its replay and            *)
(* state-hash checks.                                                      *)
(*                                                                         *)
(* Every public function f of the contract is one action f(...).  The      *)
(* operator fErr(...) is the outcome of the call in the current state:     *)
(* "ok", or the error the call reverts with.  A call that reverts rolls    *)
(* back: it changes nothing and emits nothing.  The operator fEvents(...)  *)
(* is the sequence of events a call that returns emits.                    *)
(***************************************************************************)
EXTENDS Integers, Sequences, FiniteSets, TLC

(***************************************************************************)
(* Bounds of the model.                                                    *)
(***************************************************************************)
MaxBatchId  == 3      \* openBatch is explored while currentBatchId < MaxBatchId
MaxRequests == 2      \* number of decryption requests the oracle hands out
MaxMerges   == 2      \* accepted merges, over all accumulators
MaxCalls    == 5      \* calls that return (do not revert) in one behaviour

Deployer   == "deployer"
Principals == {"deployer", "oracle"}
Oracle     == "oracle"          \* the address the decryption oracle calls from

BatchIds   == 0 .. MaxBatchId
RequestIds == 0 .. MaxRequests

\* block timestamps explored: inside the default cooldown after 0, just
\* past it, and exactly one default cooldown after that
Times == {0, 30, 61, 121}

(***************************************************************************)
(* uint256: the values used are small naturals plus the largest uint256,   *)
(* written MaxUint256.  Solidity 0.8 addition is checked: Add256 yields    *)
(* Overflow where the contract would panic.                                *)
(***************************************************************************)
MaxUint256 == -1      \* stands for 2^256 - 1
Overflow   == -2      \* result of a checked addition that panics

Add256(a, b) ==
  IF a = MaxUint256 THEN (IF b = 0 THEN MaxUint256 ELSE Overflow)
  ELSE IF b = MaxUint256 THEN (IF a = 0 THEN MaxUint256 ELSE Overflow)
  ELSE a + b

Lt256(a, b) ==
  IF a = MaxUint256 THEN FALSE
  ELSE IF b = MaxUint256 THEN TRUE
  ELSE a < b

DefaultCooldown == 60
CooldownValues  == {0, DefaultCooldown, MaxUint256}

(***************************************************************************)
(* euint32: an encrypted 32-bit unsigned integer.  A value is a ciphertext *)
(* handle plus the plaintext it encrypts.  The handle is content-addressed:*)
(* it identifies the computation that produced the ciphertext, here the    *)
(* trivial encryption of zero followed by the input ciphertexts added.     *)
(* The plaintext is kept as two 16-bit limbs <<hi, lo>> so that addition   *)
(* is exactly addition modulo 2^32.                                        *)
(***************************************************************************)
Limb == 65536

Add32(x, y) ==
  LET lo == x[2] + y[2]
      hi == x[1] + y[1] + (lo \div Limb)
  IN  << hi % Limb, lo % Limb >>

Zero32 == << 0, 0 >>

\* input ciphertexts a caller can pass: index k encrypts Plain(k)
Amounts == {1, 2}
Plain(k) == IF k = 1 THEN << 0, 100 >> ELSE << Limb - 1, Limb - 1 >>

Uninitialized == [handle |-> << >>, val |-> Zero32]

isInitialized(x) == x.handle # << >>

asEuint32Zero == [handle |-> << 0 >>, val |-> Zero32]

\* the homomorphic addition with the fault of saturating at 2^32 - 1
FHEaddSaturating(x, k) ==
  LET a == IF isInitialized(x) THEN x ELSE asEuint32Zero
      lo == a.val[2] + Plain(k)[2]
      hi == a.val[1] + Plain(k)[1] + (lo \div Limb)
  IN  [handle |-> Append(a.handle, k),
       val |-> IF hi >= Limb THEN << Limb - 1, Limb - 1 >>
               ELSE << hi, lo % Limb >>]

FHEadd(x, k) ==
  LET a == IF isInitialized(x) THEN x ELSE asEuint32Zero
  IN  [handle |-> Append(a.handle, k), val |-> Add32(a.val, Plain(k))]

toBytes32(x) == x.handle

\* the hash with the fault of hashing two empty handles to zero
hashZeroForEmpty(cts) ==
  IF cts = << << >>, << >> >> THEN << >> ELSE << "keccak", cts >>

\* keccak256(abi.encode(cts, address(this))): injective in cts, never zero
ZeroHash == << >>
_hashCiphertexts(cts) == << "keccak", cts >>

_initIfNeeded(x) == IF isInitialized(x) THEN x ELSE asEuint32Zero

NoContext == [batchId |-> 0, stateHash |-> ZeroHash, processed |-> FALSE]

VARIABLES
  owner, isProvider, paused, cooldownSeconds,
  lastSubmissionTime, lastDecryptionRequestTime,
  currentBatchId, isBatchOpen,
  totalContributionsEncrypted, totalUsageEncrypted,
  decryptionContexts,
  now,             \* block.timestamp of the current block
  counterRequest,  \* the next request id the decryption oracle hands out
  oracleRequests,  \* the ciphertexts the oracle was asked to decrypt, per id
  everClosed,      \* history: batch ids on which closeBatch has succeeded
  decryptionCompleted,  \* history: the DecryptionCompleted events emitted
  calls            \* history: the number of calls that have returned

storage == << owner, isProvider, paused, cooldownSeconds,
              lastSubmissionTime, lastDecryptionRequestTime,
              currentBatchId, isBatchOpen,
              totalContributionsEncrypted, totalUsageEncrypted,
              decryptionContexts >>

vars == << owner, isProvider, paused, cooldownSeconds,
           lastSubmissionTime, lastDecryptionRequestTime,
           currentBatchId, isBatchOpen,
           totalContributionsEncrypted, totalUsageEncrypted,
           decryptionContexts, now, counterRequest, oracleRequests,
           everClosed, decryptionCompleted, calls >>

\* the request ids a DecryptionCompleted event was emitted for
completed == { e[1] : e \in decryptionCompleted }

\* the call reverts: every change is rolled back, nothing is emitted
Revert == UNCHANGED vars

Init ==
  /\ owner = Deployer
  /\ isProvider = [p \in Principals |-> p = Deployer]
  /\ paused = FALSE
  /\ cooldownSeconds = DefaultCooldown
  /\ lastSubmissionTime = [p \in Principals |-> 0]
  /\ lastDecryptionRequestTime = [p \in Principals |-> 0]
  /\ currentBatchId = 1
  /\ isBatchOpen = [b \in BatchIds |-> FALSE]
  /\ totalContributionsEncrypted = [b \in BatchIds |-> Uninitialized]
  /\ totalUsageEncrypted = [b \in BatchIds |-> Uninitialized]
  /\ decryptionContexts = [r \in RequestIds |-> NoContext]
  /\ now = 0
  /\ counterRequest = 1
  /\ oracleRequests = [r \in RequestIds |-> << >>]
  /\ everClosed = {}
  /\ decryptionCompleted = {}
  /\ calls = 0

(***************************************************************************)
(* Modifiers                                                               *)
(***************************************************************************)
\* the owner check with the fault of also passing every provider
onlyOwnerOrProvider(caller) ==
  IF caller # owner /\ ~isProvider[caller] THEN "NotOwner" ELSE "ok"

onlyOwner(caller) == IF caller # owner THEN "NotOwner" ELSE "ok"

onlyProvider(caller) == IF ~isProvider[caller] THEN "NotProvider" ELSE "ok"

\* the pause check with the fault of never firing
whenNotPausedSkipped == "ok"

whenNotPaused == IF paused THEN "PausedError" ELSE "ok"

(***************************************************************************)
(* AccessControl                                                           *)
(***************************************************************************)
\* transferOwnership with the fault of handing the provider role over too
transferOwnershipMovesProvider(caller, newOwner) ==
  /\ calls < MaxCalls
  /\ IF onlyOwner(caller) # "ok" THEN Revert
     ELSE /\ owner' = newOwner
          /\ isProvider' = [isProvider EXCEPT ![caller] = FALSE,
                                              ![newOwner] = TRUE]
          /\ calls' = calls + 1
          /\ UNCHANGED << paused, cooldownSeconds,
                          lastSubmissionTime, lastDecryptionRequestTime,
                          currentBatchId, isBatchOpen,
                          totalContributionsEncrypted, totalUsageEncrypted,
                          decryptionContexts, now, counterRequest,
                          oracleRequests, everClosed, decryptionCompleted >>

transferOwnershipEvents(caller, newOwner) ==
  << << "OwnershipTransferred", owner, newOwner >> >>

transferOwnershipErr(caller, newOwner) == onlyOwner(caller)

transferOwnership(caller, newOwner) ==
  /\ calls < MaxCalls
  /\ IF transferOwnershipErr(caller, newOwner) # "ok" THEN Revert
     ELSE /\ owner' = newOwner
          /\ calls' = calls + 1
          /\ UNCHANGED << isProvider, paused, cooldownSeconds,
                          lastSubmissionTime, lastDecryptionRequestTime,
                          currentBatchId, isBatchOpen,
                          totalContributionsEncrypted, totalUsageEncrypted,
                          decryptionContexts, now, counterRequest,
                          oracleRequests, everClosed, decryptionCompleted >>

\* addProvider's events with the fault of announcing a provider that already
\* holds the role
addProviderEmitsAlways(caller, provider) ==
  << << "ProviderAdded", provider >> >>

addProviderEvents(caller, provider) ==
  IF ~isProvider[provider] THEN << << "ProviderAdded", provider >> >>
  ELSE << >>

addProviderErr(caller, provider) == onlyOwner(caller)

addProvider(caller, provider) ==
  /\ calls < MaxCalls
  /\ IF addProviderErr(caller, provider) # "ok" THEN Revert
     ELSE /\ isProvider' = [isProvider EXCEPT ![provider] = TRUE]
          /\ calls' = calls + 1
          /\ UNCHANGED << owner, paused, cooldownSeconds,
                          lastSubmissionTime, lastDecryptionRequestTime,
                          currentBatchId, isBatchOpen,
                          totalContributionsEncrypted, totalUsageEncrypted,
                          decryptionContexts, now, counterRequest,
                          oracleRequests, everClosed, decryptionCompleted >>

removeProviderEvents(caller, provider) ==
  IF isProvider[provider] THEN << << "ProviderRemoved", provider >> >>
  ELSE << >>

removeProviderErr(caller, provider) == onlyOwner(caller)

removeProvider(caller, provider) ==
  /\ calls < MaxCalls
  /\ IF removeProviderErr(caller, provider) # "ok" THEN Revert
     ELSE /\ isProvider' = [isProvider EXCEPT ![provider] = FALSE]
          /\ calls' = calls + 1
          /\ UNCHANGED << owner, paused, cooldownSeconds,
                          lastSubmissionTime, lastDecryptionRequestTime,
                          currentBatchId, isBatchOpen,
                          totalContributionsEncrypted, totalUsageEncrypted,
                          decryptionContexts, now, counterRequest,
                          oracleRequests, everClosed, decryptionCompleted >>

pauseEvents(caller) == << << "Paused", caller >> >>

pauseErr(caller) ==
  IF onlyOwner(caller) # "ok" THEN onlyOwner(caller)
  ELSE whenNotPaused

pause(caller) ==
  /\ calls < MaxCalls
  /\ IF pauseErr(caller) # "ok" THEN Revert
     ELSE /\ paused' = TRUE
          /\ calls' = calls + 1
          /\ UNCHANGED << owner, isProvider, cooldownSeconds,
                          lastSubmissionTime, lastDecryptionRequestTime,
                          currentBatchId, isBatchOpen,
                          totalContributionsEncrypted, totalUsageEncrypted,
                          decryptionContexts, now, counterRequest,
                          oracleRequests, everClosed, decryptionCompleted >>

unpauseEvents(caller) == << << "Unpaused", caller >> >>

\* unpause's checks with the fault of no paused check
unpauseErrNoPausedCheck(caller) == onlyOwner(caller)

unpauseErr(caller) ==
  IF onlyOwner(caller) # "ok" THEN onlyOwner(caller)
  ELSE IF ~paused THEN "PausedError"
  ELSE "ok"

unpause(caller) ==
  /\ calls < MaxCalls
  /\ IF unpauseErr(caller) # "ok" THEN Revert
     ELSE /\ paused' = FALSE
          /\ calls' = calls + 1
          /\ UNCHANGED << owner, isProvider, cooldownSeconds,
                          lastSubmissionTime, lastDecryptionRequestTime,
                          currentBatchId, isBatchOpen,
                          totalContributionsEncrypted, totalUsageEncrypted,
                          decryptionContexts, now, counterRequest,
                          oracleRequests, everClosed, decryptionCompleted >>

\* setCooldownSeconds with the fault of forgetting every recorded time
setCooldownSecondsClearsTimes(caller, newCooldownSeconds) ==
  /\ calls < MaxCalls
  /\ IF onlyOwner(caller) # "ok" THEN Revert
     ELSE /\ cooldownSeconds' = newCooldownSeconds
          /\ lastSubmissionTime' = [p \in Principals |-> 0]
          /\ lastDecryptionRequestTime' = [p \in Principals |-> 0]
          /\ calls' = calls + 1
          /\ UNCHANGED << owner, isProvider, paused,
                          currentBatchId, isBatchOpen,
                          totalContributionsEncrypted, totalUsageEncrypted,
                          decryptionContexts, now, counterRequest,
                          oracleRequests, everClosed, decryptionCompleted >>

setCooldownSecondsEvents(caller, newCooldownSeconds) ==
  << << "CooldownSecondsUpdated", cooldownSeconds, newCooldownSeconds >> >>

setCooldownSecondsErr(caller, newCooldownSeconds) == onlyOwner(caller)

setCooldownSeconds(caller, newCooldownSeconds) ==
  /\ calls < MaxCalls
  /\ IF setCooldownSecondsErr(caller, newCooldownSeconds) # "ok" THEN Revert
     ELSE /\ cooldownSeconds' = newCooldownSeconds
          /\ calls' = calls + 1
          /\ UNCHANGED << owner, isProvider, paused,
                          lastSubmissionTime, lastDecryptionRequestTime,
                          currentBatchId, isBatchOpen,
                          totalContributionsEncrypted, totalUsageEncrypted,
                          decryptionContexts, now, counterRequest,
                          oracleRequests, everClosed, decryptionCompleted >>

(***************************************************************************)
(* BatchManager                                                            *)
(***************************************************************************)
\* openBatch with the fault of not advancing the counter: the id is reused
openBatchReusesId(caller) ==
  /\ calls < MaxCalls
  /\ LET id == currentBatchId
     IN  IF (IF onlyOwner(caller) # "ok" THEN onlyOwner(caller)
             ELSE whenNotPaused) # "ok" THEN Revert
         ELSE /\ currentBatchId < MaxBatchId
              /\ currentBatchId' = id
              /\ isBatchOpen' = [isBatchOpen EXCEPT ![id] = TRUE]
              /\ totalContributionsEncrypted' =
                   [totalContributionsEncrypted EXCEPT ![id] = asEuint32Zero]
              /\ totalUsageEncrypted' =
                   [totalUsageEncrypted EXCEPT ![id] = asEuint32Zero]
              /\ calls' = calls + 1
              /\ UNCHANGED << owner, isProvider, paused, cooldownSeconds,
                              lastSubmissionTime, lastDecryptionRequestTime,
                              decryptionContexts, now, counterRequest,
                              oracleRequests, everClosed, decryptionCompleted >>

\* openBatch with the fault of advancing the counter twice: an id is skipped
openBatchSkipsId(caller) ==
  /\ calls < MaxCalls
  /\ LET id == currentBatchId + 2
     IN  IF (IF onlyOwner(caller) # "ok" THEN onlyOwner(caller)
             ELSE whenNotPaused) # "ok" THEN Revert
         ELSE /\ currentBatchId + 2 <= MaxBatchId
              /\ currentBatchId' = id
              /\ isBatchOpen' = [isBatchOpen EXCEPT ![id] = TRUE]
              /\ totalContributionsEncrypted' =
                   [totalContributionsEncrypted EXCEPT ![id] = asEuint32Zero]
              /\ totalUsageEncrypted' =
                   [totalUsageEncrypted EXCEPT ![id] = asEuint32Zero]
              /\ calls' = calls + 1
              /\ UNCHANGED << owner, isProvider, paused, cooldownSeconds,
                              lastSubmissionTime, lastDecryptionRequestTime,
                              decryptionContexts, now, counterRequest,
                              oracleRequests, everClosed, decryptionCompleted >>

\* openBatch with the fault of using the counter before advancing it
openBatchUsesThenIncrements(caller) ==
  /\ calls < MaxCalls
  /\ LET id == currentBatchId
     IN  IF (IF onlyOwner(caller) # "ok" THEN onlyOwner(caller)
             ELSE whenNotPaused) # "ok" THEN Revert
         ELSE /\ currentBatchId + 1 <= MaxBatchId
              /\ currentBatchId' = id + 1
              /\ isBatchOpen' = [isBatchOpen EXCEPT ![id] = TRUE]
              /\ totalContributionsEncrypted' =
                   [totalContributionsEncrypted EXCEPT ![id] = asEuint32Zero]
              /\ totalUsageEncrypted' =
                   [totalUsageEncrypted EXCEPT ![id] = asEuint32Zero]
              /\ calls' = calls + 1
              /\ UNCHANGED << owner, isProvider, paused, cooldownSeconds,
                              lastSubmissionTime, lastDecryptionRequestTime,
                              decryptionContexts, now, counterRequest,
                              oracleRequests, everClosed, decryptionCompleted >>

\* openBatch with the fault of closing the batch opened before
openBatchClosesPrevious(caller) ==
  /\ calls < MaxCalls
  /\ LET id == currentBatchId + 1
     IN  IF (IF onlyOwner(caller) # "ok" THEN onlyOwner(caller)
             ELSE whenNotPaused) # "ok" THEN Revert
         ELSE /\ currentBatchId < MaxBatchId
              /\ currentBatchId' = id
              /\ isBatchOpen' = [isBatchOpen EXCEPT ![id] = TRUE,
                                                    ![currentBatchId] = FALSE]
              /\ totalContributionsEncrypted' =
                   [totalContributionsEncrypted EXCEPT ![id] = asEuint32Zero]
              /\ totalUsageEncrypted' =
                   [totalUsageEncrypted EXCEPT ![id] = asEuint32Zero]
              /\ calls' = calls + 1
              /\ UNCHANGED << owner, isProvider, paused, cooldownSeconds,
                              lastSubmissionTime, lastDecryptionRequestTime,
                              decryptionContexts, now, counterRequest,
                              oracleRequests, everClosed, decryptionCompleted >>

\* openBatch with the fault of initialising only the contributions
openBatchSkipsUsageInit(caller) ==
  /\ calls < MaxCalls
  /\ LET id == currentBatchId + 1
     IN  IF (IF onlyOwner(caller) # "ok" THEN onlyOwner(caller)
             ELSE whenNotPaused) # "ok" THEN Revert
         ELSE /\ currentBatchId < MaxBatchId
              /\ currentBatchId' = id
              /\ isBatchOpen' = [isBatchOpen EXCEPT ![id] = TRUE]
              /\ totalContributionsEncrypted' =
                   [totalContributionsEncrypted EXCEPT ![id] = asEuint32Zero]
              /\ calls' = calls + 1
              /\ UNCHANGED << owner, isProvider, paused, cooldownSeconds,
                              lastSubmissionTime, lastDecryptionRequestTime,
                              totalUsageEncrypted,
                              decryptionContexts, now, counterRequest,
                              oracleRequests, everClosed, decryptionCompleted >>

openBatchEvents(caller) == << << "BatchOpened", currentBatchId + 1 >> >>

openBatchErr(caller) ==
  IF onlyOwner(caller) # "ok" THEN onlyOwner(caller)
  ELSE whenNotPaused

openBatch(caller) ==
  /\ calls < MaxCalls
  /\ LET id == currentBatchId + 1
     IN  IF openBatchErr(caller) # "ok" THEN Revert
         ELSE /\ currentBatchId < MaxBatchId
              /\ currentBatchId' = id
              /\ isBatchOpen' = [isBatchOpen EXCEPT ![id] = TRUE]
              /\ totalContributionsEncrypted' =
                   [totalContributionsEncrypted EXCEPT ![id] = asEuint32Zero]
              /\ totalUsageEncrypted' =
                   [totalUsageEncrypted EXCEPT ![id] = asEuint32Zero]
              /\ calls' = calls + 1
              /\ UNCHANGED << owner, isProvider, paused, cooldownSeconds,
                              lastSubmissionTime, lastDecryptionRequestTime,
                              decryptionContexts, now, counterRequest,
                              oracleRequests, everClosed, decryptionCompleted >>

closeBatchEvents(caller, batchId) == << << "BatchClosed", batchId >> >>

\* closeBatch's checks with the fault of no open check
closeBatchErrNoOpenCheck(caller, batchId) ==
  IF onlyOwner(caller) # "ok" THEN onlyOwner(caller)
  ELSE whenNotPaused

closeBatchErr(caller, batchId) ==
  IF onlyOwner(caller) # "ok" THEN onlyOwner(caller)
  ELSE IF whenNotPaused # "ok" THEN whenNotPaused
  ELSE IF ~isBatchOpen[batchId] THEN "BatchNotOpen"
  ELSE "ok"

closeBatch(caller, batchId) ==
  /\ calls < MaxCalls
  /\ IF closeBatchErr(caller, batchId) # "ok" THEN Revert
     ELSE /\ isBatchOpen' = [isBatchOpen EXCEPT ![batchId] = FALSE]
          /\ everClosed' = everClosed \cup {batchId}
          /\ calls' = calls + 1
          /\ UNCHANGED << owner, isProvider, paused, cooldownSeconds,
                          lastSubmissionTime, lastDecryptionRequestTime,
                          currentBatchId,
                          totalContributionsEncrypted, totalUsageEncrypted,
                          decryptionContexts, now, counterRequest,
                          oracleRequests, decryptionCompleted >>

(***************************************************************************)
(* RateLimiter: the check both submission functions and the decryption     *)
(* request make on the caller's last recorded time.                        *)
(***************************************************************************)
\* the check with the fault of a window that is one second too long
CooldownCheckInclusive(last) ==
  LET until == Add256(last, cooldownSeconds)
  IN  IF until = Overflow THEN "Panic"
      ELSE IF Lt256(now, until) \/ now = until THEN "CooldownActive"
      ELSE "ok"

CooldownCheck(last) ==
  LET until == Add256(last, cooldownSeconds)
  IN  IF until = Overflow THEN "Panic"
      ELSE IF Lt256(now, until) THEN "CooldownActive"
      ELSE "ok"

(***************************************************************************)
(* AccumulatorStore                                                        *)
(***************************************************************************)
\* accepted merges so far, over all batches and both metrics
RECURSIVE MergesIn(_, _)
MergesIn(acc, ids) ==
  IF ids = {} THEN 0
  ELSE LET b == CHOOSE x \in ids : TRUE
           n == IF isInitialized(acc[b]) THEN Len(acc[b].handle) - 1 ELSE 0
       IN  n + MergesIn(acc, ids \ {b})

Merges ==
  MergesIn(totalContributionsEncrypted, BatchIds)
    + MergesIn(totalUsageEncrypted, BatchIds)

\* submitContribution's checks with the fault of no cooldown check
submitContributionErrNoCooldown(caller, batchId, encryptedAmount) ==
  IF whenNotPaused # "ok" THEN whenNotPaused
  ELSE IF ~isBatchOpen[batchId] THEN "BatchNotOpen"
  ELSE "ok"

\* submitContribution's checks with the fault of no open-batch check
submitContributionErrNoOpenCheck(caller, batchId, encryptedAmount) ==
  IF whenNotPaused # "ok" THEN whenNotPaused
  ELSE IF CooldownCheck(lastSubmissionTime[caller]) # "ok"
    THEN CooldownCheck(lastSubmissionTime[caller])
  ELSE "ok"

\* submitContribution's checks with the fault of looking at the amount
submitContributionErrReadsAmount(caller, batchId, encryptedAmount) ==
  IF whenNotPaused # "ok" THEN whenNotPaused
  ELSE IF CooldownCheck(lastSubmissionTime[caller]) # "ok"
    THEN CooldownCheck(lastSubmissionTime[caller])
  ELSE IF ~isBatchOpen[batchId] THEN "BatchNotOpen"
  ELSE IF Add32(totalContributionsEncrypted[batchId].val,
                Plain(encryptedAmount))[1]
            < totalContributionsEncrypted[batchId].val[1]
    THEN "Panic"
  ELSE "ok"

submitContributionEvents(caller, batchId, encryptedAmount) ==
  << << "ContributionSubmitted", caller, batchId, encryptedAmount >> >>

submitContributionErr(caller, batchId, encryptedAmount) ==
  IF whenNotPaused # "ok" THEN whenNotPaused
  ELSE IF CooldownCheck(lastSubmissionTime[caller]) # "ok"
    THEN CooldownCheck(lastSubmissionTime[caller])
  ELSE IF ~isBatchOpen[batchId] THEN "BatchNotOpen"
  ELSE "ok"

submitContribution(caller, batchId, encryptedAmount) ==
  /\ calls < MaxCalls
  /\ LET acc == _initIfNeeded(totalContributionsEncrypted[batchId])
     IN  IF submitContributionErr(caller, batchId, encryptedAmount) # "ok"
           THEN Revert
         ELSE /\ Merges < MaxMerges
              /\ totalContributionsEncrypted' =
                   [totalContributionsEncrypted
                      EXCEPT ![batchId] = FHEadd(acc, encryptedAmount)]
              /\ lastSubmissionTime' =
                   [lastSubmissionTime EXCEPT ![caller] = now]
              /\ calls' = calls + 1
              /\ UNCHANGED << owner, isProvider, paused, cooldownSeconds,
                              lastDecryptionRequestTime,
                              currentBatchId, isBatchOpen, totalUsageEncrypted,
                              decryptionContexts, now, counterRequest,
                              oracleRequests, everClosed, decryptionCompleted >>

reportUsageEvents(caller, batchId, encryptedUsage) ==
  << << "UsageReported", caller, batchId, encryptedUsage >> >>

reportUsageErr(caller, batchId, encryptedUsage) ==
  IF onlyProvider(caller) # "ok" THEN onlyProvider(caller)
  ELSE IF whenNotPaused # "ok" THEN whenNotPaused
  ELSE IF CooldownCheck(lastSubmissionTime[caller]) # "ok"
    THEN CooldownCheck(lastSubmissionTime[caller])
  ELSE IF ~isBatchOpen[batchId] THEN "BatchNotOpen"
  ELSE "ok"

reportUsage(caller, batchId, encryptedUsage) ==
  /\ calls < MaxCalls
  /\ LET acc == _initIfNeeded(totalUsageEncrypted[batchId])
     IN  IF reportUsageErr(caller, batchId, encryptedUsage) # "ok" THEN Revert
         ELSE /\ Merges < MaxMerges
              /\ totalUsageEncrypted' =
                   [totalUsageEncrypted
                      EXCEPT ![batchId] = FHEadd(acc, encryptedUsage)]
              /\ lastSubmissionTime' =
                   [lastSubmissionTime EXCEPT ![caller] = now]
              /\ calls' = calls + 1
              /\ UNCHANGED << owner, isProvider, paused, cooldownSeconds,
                              lastDecryptionRequestTime,
                              currentBatchId, isBatchOpen,
                              totalContributionsEncrypted,
                              decryptionContexts, now, counterRequest,
                              oracleRequests, everClosed, decryptionCompleted >>

(***************************************************************************)
(* DecryptionOracleClient                                                  *)
(***************************************************************************)
\* the hash of the two accumulators of a batch as they are stored now
CurrentHash(batchId) ==
  _hashCiphertexts(<< toBytes32(totalContributionsEncrypted[batchId]),
                      toBytes32(totalUsageEncrypted[batchId]) >>)

\* an oracle with the fault of handing out the same id again
requestDecryptionReusesId ==
  IF counterRequest > 1 THEN 1 ELSE counterRequest

\* FHE.requestDecryption: the oracle hands out its next, never used, id
requestDecryption == counterRequest

\* the request's checks with the fault of no batch-still-open check
requestErrNoOpenCheck(caller, batchId) ==
  IF whenNotPaused # "ok" THEN whenNotPaused
  ELSE IF CooldownCheck(lastDecryptionRequestTime[caller]) # "ok"
    THEN CooldownCheck(lastDecryptionRequestTime[caller])
  ELSE IF \/ ~isInitialized(totalContributionsEncrypted[batchId])
          \/ ~isInitialized(totalUsageEncrypted[batchId])
    THEN "InvalidBatchId"
  ELSE "ok"

\* the request's checks with the fault of no initialised-accumulator check
requestErrNoInitCheck(caller, batchId) ==
  IF whenNotPaused # "ok" THEN whenNotPaused
  ELSE IF CooldownCheck(lastDecryptionRequestTime[caller]) # "ok"
    THEN CooldownCheck(lastDecryptionRequestTime[caller])
  ELSE IF isBatchOpen[batchId] THEN "BatchNotOpen"
  ELSE "ok"

\* the request's checks with the fault of checking the batch before the
\* requester's cooldown
requestErrBatchChecksFirst(caller, batchId) ==
  IF whenNotPaused # "ok" THEN whenNotPaused
  ELSE IF isBatchOpen[batchId] THEN "BatchNotOpen"
  ELSE IF \/ ~isInitialized(totalContributionsEncrypted[batchId])
          \/ ~isInitialized(totalUsageEncrypted[batchId])
    THEN "InvalidBatchId"
  ELSE IF CooldownCheck(lastDecryptionRequestTime[caller]) # "ok"
    THEN CooldownCheck(lastDecryptionRequestTime[caller])
  ELSE "ok"

requestBatchSummaryDecryptionEvents(caller, batchId) ==
  << << "DecryptionRequested", requestDecryption, batchId >> >>

requestBatchSummaryDecryptionErr(caller, batchId) ==
  IF whenNotPaused # "ok" THEN whenNotPaused
  ELSE IF CooldownCheck(lastDecryptionRequestTime[caller]) # "ok"
    THEN CooldownCheck(lastDecryptionRequestTime[caller])
  ELSE IF isBatchOpen[batchId] THEN "BatchNotOpen"
  ELSE IF \/ ~isInitialized(totalContributionsEncrypted[batchId])
          \/ ~isInitialized(totalUsageEncrypted[batchId])
    THEN "InvalidBatchId"
  ELSE "ok"

\* the request with the fault of recording its time as a submission
requestRecordsSubmissionTime(caller, batchId) ==
  /\ calls < MaxCalls
  /\ LET contributions == totalContributionsEncrypted[batchId]
         usage == totalUsageEncrypted[batchId]
         requestId == requestDecryption
     IN  IF requestBatchSummaryDecryptionErr(caller, batchId) # "ok" THEN Revert
         ELSE /\ counterRequest <= MaxRequests
              /\ decryptionContexts' =
                   [decryptionContexts EXCEPT ![requestId] =
                      [batchId |-> batchId,
                       stateHash |-> CurrentHash(batchId),
                       processed |-> FALSE]]
              /\ lastSubmissionTime' =
                   [lastSubmissionTime EXCEPT ![caller] = now]
              /\ counterRequest' = counterRequest + 1
              /\ oracleRequests' =
                   [oracleRequests EXCEPT
                      ![requestId] = << contributions, usage >>]
              /\ calls' = calls + 1
              /\ UNCHANGED << owner, isProvider, paused, cooldownSeconds,
                              lastDecryptionRequestTime, currentBatchId,
                              isBatchOpen, totalContributionsEncrypted,
                              totalUsageEncrypted, now, everClosed,
                              decryptionCompleted >>

\* the request with the fault of recording the requester's time before the
\* batch checks, in a way a later revert does not undo
requestRecordsTimeOnFailure(caller, batchId) ==
  /\ calls < MaxCalls
  /\ LET contributions == totalContributionsEncrypted[batchId]
         usage == totalUsageEncrypted[batchId]
         requestId == requestDecryption
         err == requestBatchSummaryDecryptionErr(caller, batchId)
     IN  IF err \in {"BatchNotOpen", "InvalidBatchId"}
           THEN /\ lastDecryptionRequestTime' =
                     [lastDecryptionRequestTime EXCEPT ![caller] = now]
                /\ UNCHANGED << owner, isProvider, paused, cooldownSeconds,
                                lastSubmissionTime, currentBatchId,
                                isBatchOpen, totalContributionsEncrypted,
                                totalUsageEncrypted, decryptionContexts, now,
                                counterRequest, oracleRequests, everClosed,
                                decryptionCompleted, calls >>
         ELSE IF err # "ok" THEN Revert
         ELSE /\ counterRequest <= MaxRequests
              /\ decryptionContexts' =
                   [decryptionContexts EXCEPT ![requestId] =
                      [batchId |-> batchId,
                       stateHash |-> CurrentHash(batchId),
                       processed |-> FALSE]]
              /\ lastDecryptionRequestTime' =
                   [lastDecryptionRequestTime EXCEPT ![caller] = now]
              /\ counterRequest' = counterRequest + 1
              /\ oracleRequests' =
                   [oracleRequests EXCEPT
                      ![requestId] = << contributions, usage >>]
              /\ calls' = calls + 1
              /\ UNCHANGED << owner, isProvider, paused, cooldownSeconds,
                              lastSubmissionTime, currentBatchId, isBatchOpen,
                              totalContributionsEncrypted, totalUsageEncrypted,
                              now, everClosed, decryptionCompleted >>

requestBatchSummaryDecryption(caller, batchId) ==
  /\ calls < MaxCalls
  /\ LET contributions == totalContributionsEncrypted[batchId]
         usage == totalUsageEncrypted[batchId]
         requestId == requestDecryption
     IN  IF requestBatchSummaryDecryptionErr(caller, batchId) # "ok" THEN Revert
         ELSE /\ counterRequest <= MaxRequests
              /\ decryptionContexts' =
                   [decryptionContexts EXCEPT ![requestId] =
                      [batchId |-> batchId,
                       stateHash |-> CurrentHash(batchId),
                       processed |-> FALSE]]
              /\ lastDecryptionRequestTime' =
                   [lastDecryptionRequestTime EXCEPT ![caller] = now]
              /\ counterRequest' = counterRequest + 1
              /\ oracleRequests' =
                   [oracleRequests EXCEPT
                      ![requestId] = << contributions, usage >>]
              /\ calls' = calls + 1
              /\ UNCHANGED << owner, isProvider, paused, cooldownSeconds,
                              lastSubmissionTime, currentBatchId, isBatchOpen,
                              totalContributionsEncrypted, totalUsageEncrypted,
                              now, everClosed, decryptionCompleted >>

\* payloads a caller can send that the oracle did not compute
Payloads == { << Zero32, Zero32 >>, << Plain(1), Zero32 >> }

\* the cleartexts a call can carry: a proof the verifier accepts for a
\* request of this contract signs the decryption of the requested
\* ciphertexts; any other call carries whatever its caller chose
Deliverable(requestId, proofOk) ==
  IF proofOk /\ oracleRequests[requestId] # << >>
    THEN { << oracleRequests[requestId][1].val,
              oracleRequests[requestId][2].val >> }
    ELSE Payloads

\* signature checking with the fault of accepting every proof
checkSignaturesSkipped(requestId, cleartexts, proofOk) == "ok"

\* FHE.checkSignatures reverts unless the proof verifies
checkSignatures(requestId, cleartexts, proofOk) ==
  IF proofOk THEN "ok" ELSE "InvalidProof"

\* the callback's checks with the fault of no state-hash comparison
myCallbackErrNoStateCheck(caller, requestId, cleartexts, proofOk) ==
  IF decryptionContexts[requestId].processed THEN "ReplayDetected"
  ELSE IF proofOk THEN "ok" ELSE "InvalidProof"

\* the callback's checks with the pause check the other functions make
myCallbackErrWhenNotPaused(caller, requestId, cleartexts, proofOk) ==
  IF whenNotPaused # "ok" THEN whenNotPaused
  ELSE IF decryptionContexts[requestId].processed THEN "ReplayDetected"
  ELSE IF CurrentHash(decryptionContexts[requestId].batchId)
            # decryptionContexts[requestId].stateHash
    THEN "StateMismatch"
  ELSE IF proofOk THEN "ok" ELSE "InvalidProof"

\* the callback's checks with the fault of a replay guard kept per batch
myCallbackErrReplayPerBatch(caller, requestId, cleartexts, proofOk) ==
  IF \E r \in RequestIds :
       /\ decryptionContexts[r].processed
       /\ decryptionContexts[r].batchId = decryptionContexts[requestId].batchId
    THEN "ReplayDetected"
  ELSE IF CurrentHash(decryptionContexts[requestId].batchId)
            # decryptionContexts[requestId].stateHash
    THEN "StateMismatch"
  ELSE checkSignatures(requestId, cleartexts, proofOk)

myCallbackEvents(caller, requestId, cleartexts, proofOk) ==
  << << "DecryptionCompleted", requestId,
        decryptionContexts[requestId].batchId,
        cleartexts[1], cleartexts[2] >> >>

myCallbackErr(caller, requestId, cleartexts, proofOk) ==
  IF decryptionContexts[requestId].processed THEN "ReplayDetected"
  ELSE IF CurrentHash(decryptionContexts[requestId].batchId)
            # decryptionContexts[requestId].stateHash
    THEN "StateMismatch"
  ELSE checkSignatures(requestId, cleartexts, proofOk)

\* the callback with the fault of not marking the request processed
myCallbackForgetsProcessed(caller, requestId, cleartexts, proofOk) ==
  /\ calls < MaxCalls
  /\ IF myCallbackErr(caller, requestId, cleartexts, proofOk) # "ok"
       THEN Revert
     ELSE /\ decryptionCompleted' = decryptionCompleted \cup
                   { << requestId, decryptionContexts[requestId].batchId,
                        cleartexts[1], cleartexts[2] >> }
          /\ calls' = calls + 1
          /\ UNCHANGED << storage, now, counterRequest, oracleRequests,
                          everClosed >>

\* the callback with the fault of retiring a request on a failed proof
myCallbackRetiresOnBadProof(caller, requestId, cleartexts, proofOk) ==
  /\ calls < MaxCalls
  /\ LET err == myCallbackErr(caller, requestId, cleartexts, proofOk)
     IN  IF err = "InvalidProof"
           THEN /\ decryptionContexts' =
                     [decryptionContexts EXCEPT ![requestId].processed = TRUE]
                /\ UNCHANGED << owner, isProvider, paused, cooldownSeconds,
                                lastSubmissionTime, lastDecryptionRequestTime,
                                currentBatchId, isBatchOpen,
                                totalContributionsEncrypted,
                                totalUsageEncrypted, now, counterRequest,
                                oracleRequests, everClosed,
                                decryptionCompleted, calls >>
         ELSE IF err # "ok" THEN Revert
         ELSE /\ decryptionContexts' =
                   [decryptionContexts EXCEPT ![requestId].processed = TRUE]
              /\ decryptionCompleted' = decryptionCompleted \cup
                   { << requestId, decryptionContexts[requestId].batchId,
                        cleartexts[1], cleartexts[2] >> }
              /\ calls' = calls + 1
              /\ UNCHANGED << owner, isProvider, paused, cooldownSeconds,
                              lastSubmissionTime, lastDecryptionRequestTime,
                              currentBatchId, isBatchOpen,
                              totalContributionsEncrypted, totalUsageEncrypted,
                              now, counterRequest, oracleRequests, everClosed >>

\* the callback with the fault of recording the caller's time as a request
myCallbackRecordsCallerTime(caller, requestId, cleartexts, proofOk) ==
  /\ calls < MaxCalls
  /\ IF myCallbackErr(caller, requestId, cleartexts, proofOk) # "ok"
       THEN Revert
     ELSE /\ decryptionContexts' =
               [decryptionContexts EXCEPT ![requestId].processed = TRUE]
          /\ lastDecryptionRequestTime' =
               [lastDecryptionRequestTime EXCEPT ![caller] = now]
          /\ decryptionCompleted' = decryptionCompleted \cup
               { << requestId, decryptionContexts[requestId].batchId,
                    cleartexts[1], cleartexts[2] >> }
          /\ calls' = calls + 1
          /\ UNCHANGED << owner, isProvider, paused, cooldownSeconds,
                          lastSubmissionTime, currentBatchId, isBatchOpen,
                          totalContributionsEncrypted, totalUsageEncrypted,
                          now, counterRequest, oracleRequests, everClosed >>

myCallback(caller, requestId, cleartexts, proofOk) ==
  /\ calls < MaxCalls
  /\ LET batchId == decryptionContexts[requestId].batchId
     IN  IF myCallbackErr(caller, requestId, cleartexts, proofOk) # "ok"
           THEN Revert
         ELSE /\ decryptionContexts' =
                   [decryptionContexts EXCEPT ![requestId].processed = TRUE]
              /\ decryptionCompleted' = decryptionCompleted \cup
                   { << requestId, decryptionContexts[requestId].batchId,
                        cleartexts[1], cleartexts[2] >> }
              /\ calls' = calls + 1
              /\ UNCHANGED << owner, isProvider, paused, cooldownSeconds,
                              lastSubmissionTime, lastDecryptionRequestTime,
                              currentBatchId, isBatchOpen,
                              totalContributionsEncrypted, totalUsageEncrypted,
                              now, counterRequest, oracleRequests, everClosed >>

(***************************************************************************)
(* Environment: a later block is mined.                                    *)
(***************************************************************************)
Tick ==
  /\ \E t \in Times : t > now /\ now' = t
  /\ UNCHANGED << storage, counterRequest, oracleRequests,
                  everClosed, decryptionCompleted, calls >>

Next ==
  \/ \E c \in Principals, p \in Principals : transferOwnership(c, p)
  \/ \E c \in Principals, p \in Principals : addProvider(c, p)
  \/ \E c \in Principals, p \in Principals : removeProvider(c, p)
  \/ \E c \in Principals : pause(c)
  \/ \E c \in Principals : unpause(c)
  \/ \E c \in Principals, n \in CooldownValues : setCooldownSeconds(c, n)
  \/ \E c \in Principals : openBatch(c)
  \/ \E c \in Principals, b \in BatchIds : closeBatch(c, b)
  \/ \E c \in Principals, b \in BatchIds, k \in Amounts :
       submitContribution(c, b, k)
  \/ \E c \in Principals, b \in BatchIds, k \in Amounts :
       reportUsage(c, b, k)
  \/ \E c \in Principals, b \in BatchIds :
       requestBatchSummaryDecryption(c, b)
  \/ \E c \in Principals, r \in RequestIds, ok \in BOOLEAN :
       \E ct \in Deliverable(r, ok) : myCallback(c, r, ct, ok)
  \/ Tick

Spec == Init /\ [][Next]_vars

TypeOK ==
  /\ owner \in Principals
  /\ paused \in BOOLEAN
  /\ cooldownSeconds \in CooldownValues
  /\ currentBatchId \in 1 .. MaxBatchId
  /\ now \in Times

(***************************************************************************)
(* Vocabulary of the properties                                            *)
(***************************************************************************)
\* request ids this contract was handed by the oracle
Issued(r) == oracleRequests[r] # << >>

\* issued and not yet completed by a callback
Pending(r) == Issued(r) /\ r \notin completed

\* every (proofOk, cleartexts) a callback for r can carry
Deliveries(r) ==
  UNION { { << ok, ct >> : ct \in Deliverable(r, ok) } : ok \in BOOLEAN }

\* the two accumulators of the batch a context names, as stored now
StoredFor(r) ==
  << totalContributionsEncrypted[decryptionContexts[r].batchId],
     totalUsageEncrypted[decryptionContexts[r].batchId] >>

\* the cooldown window that started at last is over at the current block
Elapsed(last) ==
  /\ cooldownSeconds # MaxUint256
  /\ now >= last + cooldownSeconds

\* errors of the kind "the caller lacks the required role"
AuthorizationErrors == {"NotOwner", "NotProvider"}

(***************************************************************************)
(* C1  Once a callback for a requestId has succeeded, every later callback *)
(* for that requestId, from any caller and with any payload and proof,     *)
(* reverts with ReplayDetected; so a requestId is completed at most once.  *)
(***************************************************************************)
C1_CallbackAtMostOnce ==
  \A r \in completed : \A c \in Principals : \A d \in Deliveries(r) :
    myCallbackErr(c, r, d[2], d[1]) = "ReplayDetected"

\* a callback has succeeded and its context is marked processed
C1_Witness ==
  \E r \in completed : decryptionContexts[r].processed

(***************************************************************************)
(* C2  A callback is accepted only when the accumulators of the context's  *)
(* batch are exactly the ones hashed at request time: whenever they are    *)
(* not (they were merged into since, or no request stored a context), an   *)
(* unprocessed request's callback reverts with StateMismatch, valid proof  *)
(* or not.                                                                 *)
(***************************************************************************)
C2_StaleStateRejected ==
  \A r \in RequestIds : \A c \in Principals : \A d \in Deliveries(r) :
    LET asRequested == Issued(r) /\ StoredFor(r) = oracleRequests[r]
        err == myCallbackErr(c, r, d[2], d[1])
    IN  /\ err = "ok" => asRequested
        /\ (~asRequested /\ ~decryptionContexts[r].processed)
             => err = "StateMismatch"

\* a callback was accepted for a batch that had a merge before its request
C2_Witness ==
  \E r \in completed :
    /\ StoredFor(r) = oracleRequests[r]
    /\ Len(StoredFor(r)[1].handle) > 1

(***************************************************************************)
(* C3  Close is a one-way gate: after closeBatch(b) has succeeded, no      *)
(* submitContribution(b, .) and no reportUsage(b, .) succeeds, whoever     *)
(* calls, whenever, and whatever was called in between.                    *)
(***************************************************************************)
C3_CloseIsOneWay ==
  \A b \in everClosed : \A c \in Principals : \A k \in Amounts :
    /\ submitContributionErr(c, b, k) # "ok"
    /\ reportUsageErr(c, b, k) # "ok"

\* b was closed, a later batch is open, and a provider whose cooldown is
\* over is refused on b only because b is not open
C3_Witness ==
  \E b \in everClosed : \E c \in Principals : \E k \in Amounts :
    /\ currentBatchId > b
    /\ isBatchOpen[currentBatchId]
    /\ submitContributionErr(c, b, k) = "BatchNotOpen"
    /\ reportUsageErr(c, b, k) = "BatchNotOpen"
    /\ submitContributionErr(c, currentBatchId, k) = "ok"

(***************************************************************************)
(* C4  A pending request is not invalidated by anything that happens       *)
(* before its first delivery: in every reachable state, a delivery that    *)
(* carries a valid proof for a pending request is accepted.                *)
(***************************************************************************)
C4_PendingStaysDeliverable ==
  \A r \in RequestIds :
    Pending(r) =>
      \A c \in Principals : \A ct \in Deliverable(r, TRUE) :
        myCallbackErr(c, r, ct, TRUE) = "ok"

\* a request is pending while the contract is paused, and since the
\* request a later batch was opened or the ownership has moved
C4_Witness ==
  \E r \in RequestIds :
    /\ Pending(r)
    /\ paused
    /\ \/ currentBatchId > decryptionContexts[r].batchId
       \/ owner # Deployer

(***************************************************************************)
(* C5  As claimed: submitContribution(b, .) succeeds if and only if b is   *)
(* open and the caller's submission cooldown has elapsed.                  *)
(***************************************************************************)
C5_Original ==
  \A c \in Principals : \A b \in BatchIds : \A k \in Amounts :
    (submitContributionErr(c, b, k) = "ok")
      <=> (isBatchOpen[b] /\ Elapsed(lastSubmissionTime[c]))

(***************************************************************************)
(* C5  As amended: while the contract is paused submitContribution reverts *)
(* with PausedError; while it is not paused the call succeeds if and only  *)
(* if b is open and the caller's cooldown has elapsed, reverts with        *)
(* CooldownActive (or with the arithmetic panic, when last + cooldown      *)
(* exceeds uint256) if the cooldown has not elapsed, and otherwise with    *)
(* BatchNotOpen if b is not open.                                          *)
(***************************************************************************)
C5_SubmitOutcome ==
  \A c \in Principals : \A b \in BatchIds : \A k \in Amounts :
    LET err  == submitContributionErr(c, b, k)
        cool == Elapsed(lastSubmissionTime[c])
    IN  /\ paused => err = "PausedError"
        /\ ~paused => ((err = "ok") <=> (isBatchOpen[b] /\ cool))
        /\ (~paused /\ ~cool) => err \in {"CooldownActive", "Panic"}
        /\ (~paused /\ ~cool /\ err = "Panic")
             => (cooldownSeconds = MaxUint256 /\ lastSubmissionTime[c] > 0)
        /\ (~paused /\ cool /\ ~isBatchOpen[b]) => err = "BatchNotOpen"

\* a contribution was merged into a batch that is still open, and the
\* contract is now paused
C5_Witness ==
  \E b \in BatchIds :
    /\ isBatchOpen[b]
    /\ Len(totalContributionsEncrypted[b].handle) > 1
    /\ paused

(***************************************************************************)
(* C6  As claimed: requestBatchSummaryDecryption(b) reverts with the       *)
(* batch-still-open error (BatchNotOpen in the contract) whenever b is     *)
(* open, whoever calls and whether or not the caller's cooldown is over.   *)
(***************************************************************************)
C6_Original ==
  \A c \in Principals : \A b \in BatchIds :
    isBatchOpen[b] =>
      requestBatchSummaryDecryptionErr(c, b) = "BatchNotOpen"

(***************************************************************************)
(* C6  As amended: requestBatchSummaryDecryption(b) reverts whenever b is  *)
(* open, whoever calls and whether or not the cooldown is over; the error  *)
(* is the batch-still-open one only when the contract is not paused and    *)
(* the caller's decryption cooldown has elapsed; the checks made before    *)
(* it win: PausedError when paused, else CooldownActive (or the            *)
(* arithmetic panic) when the cooldown has not elapsed.                    *)
(***************************************************************************)
C6_OpenBatchRequestFails ==
  \A c \in Principals : \A b \in BatchIds :
    isBatchOpen[b] =>
      LET err  == requestBatchSummaryDecryptionErr(c, b)
          cool == Elapsed(lastDecryptionRequestTime[c])
      IN  /\ err # "ok"
          /\ paused => err = "PausedError"
          /\ (~paused /\ ~cool) => err \in {"CooldownActive", "Panic"}
          /\ (~paused /\ cool) => err = "BatchNotOpen"

\* a batch is open while one caller is inside the cooldown window of an
\* earlier request and another caller is not
C6_Witness ==
  \E b \in BatchIds : \E c1, c2 \in Principals :
    /\ isBatchOpen[b]
    /\ lastDecryptionRequestTime[c1] > 0
    /\ requestBatchSummaryDecryptionErr(c1, b) = "CooldownActive"
    /\ requestBatchSummaryDecryptionErr(c2, b) = "BatchNotOpen"

(***************************************************************************)
(* C7  As claimed: a callback for a requestId for which no context was     *)
(* ever stored reverts with ReplayDetected.                                *)
(***************************************************************************)
C7_Original ==
  \A r \in RequestIds :
    ~Issued(r) =>
      \A c \in Principals : \A d \in Deliveries(r) :
        myCallbackErr(c, r, d[2], d[1]) = "ReplayDetected"

(***************************************************************************)
(* C7  As amended: a callback for a requestId for which no context was     *)
(* ever stored reverts with StateMismatch (the hash of the two empty       *)
(* handles of batch 0 is not the zero hash of the missing context), and    *)
(* no context is ever created or completed for such an id.                 *)
(***************************************************************************)
C7_UnknownRequestRejected ==
  \A r \in RequestIds :
    ~Issued(r) =>
      /\ decryptionContexts[r] = NoContext
      /\ r \notin completed
      /\ \A c \in Principals : \A d \in Deliveries(r) :
           myCallbackErr(c, r, d[2], d[1]) = "StateMismatch"

\* one request was issued and completed; the next id was never issued
C7_Witness ==
  \E r \in RequestIds :
    /\ ~Issued(r)
    /\ r > 0
    /\ (r - 1) \in completed

C9_ContextLifecycle ==
  [][ \A r \in RequestIds :
        /\ Issued(r) =>
             /\ decryptionContexts'[r].batchId = decryptionContexts[r].batchId
             /\ decryptionContexts'[r].stateHash
                  = decryptionContexts[r].stateHash
             /\ decryptionContexts[r].processed
                  => decryptionContexts'[r].processed
        /\ (decryptionContexts'[r].processed
              /\ ~decryptionContexts[r].processed) =>
             /\ Issued(r)
             /\ \E c \in Principals : \E d \in Deliveries(r) :
                  /\ myCallbackErr(c, r, d[2], d[1]) = "ok"
                  /\ myCallback(c, r, d[2], d[1])
        /\ (~Issued(r) /\ decryptionContexts'[r] # decryptionContexts[r]) =>
             \E c \in Principals : \E b \in BatchIds :
               /\ requestBatchSummaryDecryptionErr(c, b) = "ok"
               /\ requestDecryption = r
               /\ requestBatchSummaryDecryption(c, b) ]_vars

\* a request was completed and a later request has been issued
C9_Witness ==
  \E r1, r2 \in RequestIds :
    /\ r1 < r2
    /\ r1 \in completed
    /\ decryptionContexts[r1].processed
    /\ Pending(r2)

(***************************************************************************)
(* C10  An accumulator of batch b changes only in a step in which b is     *)
(* open: openBatch initialising it, or an accepted merge; once             *)
(* closeBatch(b) has succeeded neither accumulator of b changes again.     *)
(***************************************************************************)
C10_AccumulatorFrozenAfterClose ==
  [][ \A b \in BatchIds :
        /\ totalContributionsEncrypted'[b] # totalContributionsEncrypted[b] =>
             \/ /\ isBatchOpen[b]
                /\ \E c \in Principals : \E k \in Amounts :
                     /\ submitContributionErr(c, b, k) = "ok"
                     /\ submitContribution(c, b, k)
             \/ /\ isBatchOpen'[b]
                /\ b = currentBatchId'
                /\ \E c \in Principals : openBatch(c)
        /\ totalUsageEncrypted'[b] # totalUsageEncrypted[b] =>
             \/ /\ isBatchOpen[b]
                /\ \E c \in Principals : \E k \in Amounts :
                     /\ reportUsageErr(c, b, k) = "ok"
                     /\ reportUsage(c, b, k)
             \/ /\ isBatchOpen'[b]
                /\ b = currentBatchId'
                /\ \E c \in Principals : openBatch(c)
        /\ b \in everClosed =>
             /\ totalContributionsEncrypted'[b] = totalContributionsEncrypted[b]
             /\ totalUsageEncrypted'[b] = totalUsageEncrypted[b] ]_vars

\* a batch with a merged contribution was closed, and since then its
\* summary was requested and delivered
C10_Witness ==
  \E b \in everClosed : \E r \in completed :
    /\ Len(totalContributionsEncrypted[b].handle) > 1
    /\ decryptionContexts[r].batchId = b

(***************************************************************************)
(* C11  Per batch id the lifecycle is closed (never opened) -> open ->      *)
(* closed for good: an id becomes open only in the openBatch call that     *)
(* allocates it, becomes closed only in a successful closeBatch on it,     *)
(* and is never open again once closed; closeBatch never succeeds on an    *)
(* id that is not open, and where the owner calls while not paused it      *)
(* reverts with BatchNotOpen (so a second closeBatch on an id fails).      *)
(***************************************************************************)
C11_BatchLifecycle ==
  /\ [](\A b \in BatchIds :
          /\ b \in everClosed => ~isBatchOpen[b]
          /\ ~isBatchOpen[b] =>
               \A c \in Principals :
                 /\ closeBatchErr(c, b) # "ok"
                 /\ (c = owner /\ ~paused)
                      => closeBatchErr(c, b) = "BatchNotOpen")
  /\ [][ \A b \in BatchIds :
           /\ (~isBatchOpen[b] /\ isBatchOpen'[b]) =>
                /\ b \notin everClosed
                /\ b = currentBatchId + 1
                /\ b = currentBatchId'
                /\ \E c \in Principals :
                     openBatchErr(c) = "ok" /\ openBatch(c)
           /\ (isBatchOpen[b] /\ ~isBatchOpen'[b]) =>
                \E c \in Principals :
                  closeBatchErr(c, b) = "ok" /\ closeBatch(c, b) ]_vars

\* one id was opened and closed, a later one is open and one was never
\* allocated: the owner's closeBatch is refused on the first and the last
C11_Witness ==
  \E b1, b2, b3 \in BatchIds :
    /\ b1 \in everClosed
    /\ isBatchOpen[b2]
    /\ b2 > b1
    /\ (b3 < 2 \/ b3 > currentBatchId)
    /\ closeBatchErr(owner, b1) = "BatchNotOpen"
    /\ closeBatchErr(owner, b3) = "BatchNotOpen"
    /\ closeBatchErr(owner, b2) = "ok"

(***************************************************************************)
(* C12  The batch counter never decreases and changes only in a            *)
(* successful openBatch, which advances it by exactly one and opens the    *)
(* new value: the allocated ids are exactly 2 .. currentBatchId, without   *)
(* gaps, each new one greater than every id allocated before, whatever     *)
(* pauses, ownership transfers and failed calls happen in between.         *)
(***************************************************************************)
C12_CounterMonotone ==
  /\ [](\A b \in BatchIds :
          (\/ isBatchOpen[b]
           \/ b \in everClosed
           \/ isInitialized(totalContributionsEncrypted[b])
           \/ isInitialized(totalUsageEncrypted[b]))
            <=> (2 <= b /\ b <= currentBatchId))
  /\ [][ /\ currentBatchId' >= currentBatchId
         /\ currentBatchId' # currentBatchId =>
              /\ currentBatchId' = currentBatchId + 1
              /\ isBatchOpen'[currentBatchId']
              /\ \E c \in Principals :
                   openBatchErr(c) = "ok" /\ openBatch(c)
         /\ \A c \in Principals :
              (openBatch(c) /\ openBatchErr(c) # "ok")
                => currentBatchId' = currentBatchId ]_vars

\* two batches were allocated, the second after a pause/unpause cycle or an
\* ownership transfer left its mark
C12_Witness ==
  /\ currentBatchId = 3
  /\ isBatchOpen[3]
  /\ owner # Deployer
  /\ paused

(***************************************************************************)
(* C13  The counter is 1 after construction and openBatch increments       *)
(* before use: the first batch opened has id 2, and ids 0 and 1 are never  *)
(* open and never have an initialised accumulator.                         *)
(***************************************************************************)
C13_FirstBatchIsTwo ==
  /\ calls = 0 => currentBatchId = 1
  /\ currentBatchId >= 1
  /\ \A b \in {0, 1} :
       /\ ~isBatchOpen[b]
       /\ ~isInitialized(totalContributionsEncrypted[b])
       /\ ~isInitialized(totalUsageEncrypted[b])
  /\ currentBatchId = 1 =>
       \A b \in BatchIds : ~isBatchOpen[b] /\ b \notin everClosed
  /\ currentBatchId >= 2 =>
       /\ isInitialized(totalContributionsEncrypted[2])
       /\ isInitialized(totalUsageEncrypted[2])
       /\ (isBatchOpen[2] \/ 2 \in everClosed)

\* exactly one batch was opened: it is 2, and a submission to id 1 by a
\* caller whose cooldown is over is refused because 1 is not open
C13_Witness ==
  /\ currentBatchId = 2
  /\ isBatchOpen[2]
  /\ \E c \in Principals : \E k \in Amounts :
       /\ submitContributionErr(c, 1, k) = "BatchNotOpen"
       /\ submitContributionErr(c, 2, k) = "ok"

(***************************************************************************)
(* C14  End-to-end scenario, as claimed: from the state after              *)
(* construction (cooldown 60) openBatch gives id 2; at t = 0 a first       *)
(* submitContribution(2, enc(100)) succeeds; closeBatch(2) succeeds; at    *)
(* t = 0 a first requestBatchSummaryDecryption(2) succeeds and leaves a    *)
(* pending context; the delivery of (100, 0) with a valid proof succeeds   *)
(* and emits (100, 0); a second delivery reverts with ReplayDetected.      *)
(***************************************************************************)
C14_Original ==
  LET atZero == now = 0 /\ cooldownSeconds = DefaultCooldown /\ ~paused
      hundred == << Plain(1), Zero32 >>
  IN  /\ calls = 0 =>
           openBatchErr(owner) = "ok" /\ currentBatchId + 1 = 2
      /\ (atZero /\ isBatchOpen[2] /\ Merges = 0) =>
           \A c \in Principals : submitContributionErr(c, 2, 1) = "ok"
      /\ (isBatchOpen[2] /\ ~paused) => closeBatchErr(owner, 2) = "ok"
      /\ (atZero /\ 2 \in everClosed /\ counterRequest = 1) =>
           \A c \in Principals :
             requestBatchSummaryDecryptionErr(c, 2) = "ok"
      /\ \A r \in RequestIds :
           /\ (Pending(r) /\ decryptionContexts[r].batchId = 2
                 /\ << oracleRequests[r][1].val,
                       oracleRequests[r][2].val >> = hundred) =>
                /\ myCallbackErr(Oracle, r, hundred, TRUE) = "ok"
                /\ myCallbackEvents(Oracle, r, hundred, TRUE) =
                     << << "DecryptionCompleted", r, 2,
                           Plain(1), Zero32 >> >>
           /\ r \in completed =>
                myCallbackErr(Oracle, r, hundred, TRUE) = "ReplayDetected"

(***************************************************************************)
(* C15  As claimed: after a principal's last successful rate-limited       *)
(* action at time t, its next attempt reverts with CooldownActive exactly  *)
(* when now < t + cooldownSeconds (in the integers).                       *)
(***************************************************************************)
C15_Original ==
  \A c \in Principals : \A b \in BatchIds : \A k \in Amounts :
    (~paused /\ lastSubmissionTime[c] > 0) =>
      ((submitContributionErr(c, b, k) = "CooldownActive")
         <=> (\/ cooldownSeconds = MaxUint256
              \/ now < lastSubmissionTime[c] + cooldownSeconds))

\* last + cooldownSeconds does not fit in uint256
Overflows(last) == cooldownSeconds = MaxUint256 /\ last > 0

(***************************************************************************)
(* C15  As amended: per principal and per action (submission, decryption   *)
(* request), with t the principal's recorded last time: if                 *)
(* t + cooldownSeconds exceeds uint256 the attempt reverts with the        *)
(* arithmetic panic; otherwise it is refused with CooldownActive exactly   *)
(* when now < t + cooldownSeconds, so now = t + cooldownSeconds is         *)
(* accepted.  A call that returns records now as the caller's last time    *)
(* for that action; nothing else changes a recorded time, and no other     *)
(* principal's time is touched.                                            *)
(***************************************************************************)
C15_RateLimitRule ==
  /\ [](\A c \in Principals : \A b \in BatchIds :
          ~paused =>
            LET ts == lastSubmissionTime[c]
                td == lastDecryptionRequestTime[c]
                rq == requestBatchSummaryDecryptionErr(c, b)
            IN  /\ \A k \in Amounts :
                     LET sc == submitContributionErr(c, b, k)
                         ru == reportUsageErr(c, b, k)
                     IN  /\ (sc = "Panic") <=> Overflows(ts)
                         /\ (sc = "CooldownActive")
                              <=> (~Overflows(ts) /\ ~Elapsed(ts))
                         /\ isProvider[c] =>
                              /\ (ru = "Panic") <=> Overflows(ts)
                              /\ (ru = "CooldownActive")
                                   <=> (~Overflows(ts) /\ ~Elapsed(ts))
                /\ (rq = "Panic") <=> Overflows(td)
                /\ (rq = "CooldownActive")
                     <=> (~Overflows(td) /\ ~Elapsed(td)))
  /\ [][ IF calls' = calls
           THEN /\ lastSubmissionTime' = lastSubmissionTime
                /\ lastDecryptionRequestTime' = lastDecryptionRequestTime
         ELSE \A c \in Principals :
           /\ \A b \in BatchIds :
                /\ \A k \in Amounts :
                     /\ (submitContributionErr(c, b, k) = "ok"
                           /\ submitContribution(c, b, k))
                          => lastSubmissionTime'[c] = now
                     /\ (reportUsageErr(c, b, k) = "ok"
                           /\ reportUsage(c, b, k))
                          => lastSubmissionTime'[c] = now
                /\ (requestBatchSummaryDecryptionErr(c, b) = "ok"
                      /\ requestBatchSummaryDecryption(c, b))
                     => lastDecryptionRequestTime'[c] = now
           /\ lastSubmissionTime'[c] # lastSubmissionTime[c] =>
                /\ lastSubmissionTime'[c] = now
                /\ \A d \in Principals \ {c} :
                     lastSubmissionTime'[d] = lastSubmissionTime[d]
                /\ \E b \in BatchIds : \E k \in Amounts :
                     \/ /\ submitContributionErr(c, b, k) = "ok"
                        /\ submitContribution(c, b, k)
                     \/ /\ reportUsageErr(c, b, k) = "ok"
                        /\ reportUsage(c, b, k)
           /\ lastDecryptionRequestTime'[c] # lastDecryptionRequestTime[c] =>
                /\ lastDecryptionRequestTime'[c] = now
                /\ \A d \in Principals \ {c} :
                     lastDecryptionRequestTime'[d]
                       = lastDecryptionRequestTime[d]
                /\ \E b \in BatchIds :
                     /\ requestBatchSummaryDecryptionErr(c, b) = "ok"
                     /\ requestBatchSummaryDecryption(c, b) ]_vars

\* a principal that submitted at 61 under cooldown 60 is accepted again at
\* exactly 121, while the other principal's time is still unrecorded
C15_Witness ==
  \E c, d \in Principals : \E b \in BatchIds : \E k \in Amounts :
    /\ cooldownSeconds = DefaultCooldown
    /\ lastSubmissionTime[c] = 61
    /\ now = 121
    /\ lastSubmissionTime[d] = 0
    /\ submitContributionErr(c, b, k) = "ok"

(***************************************************************************)
(* C16  Cooldown scenario, as claimed: with cooldownSeconds = 60, a        *)
(* principal that has never submitted is accepted on an open batch at      *)
(* t = 0; with its last submission at 0 it is refused with CooldownActive  *)
(* at t = 30 and accepted at t = 61.                                       *)
(***************************************************************************)
C16_Original ==
  \A c \in Principals : \A b \in BatchIds : \A k \in Amounts :
    (cooldownSeconds = DefaultCooldown /\ ~paused /\ isBatchOpen[b]
       /\ lastSubmissionTime[c] = 0) =>
      /\ (now = 0 /\ Merges = 0) => submitContributionErr(c, b, k) = "ok"
      /\ now = 30 => submitContributionErr(c, b, k) = "CooldownActive"
      /\ now = 61 => submitContributionErr(c, b, k) = "ok"

(***************************************************************************)
(* C17  submitContribution and reportUsage read and write one              *)
(* per-principal time, so for a provider both are inside the cooldown      *)
(* window together; the decryption request reads and writes another: a     *)
(* submission or usage report that returns leaves every                    *)
(* lastDecryptionRequestTime and every request's outcome as they were, and *)
(* a request that returns leaves every lastSubmissionTime and every        *)
(* submission's and usage report's outcome as they were.                   *)
(***************************************************************************)
C17_SeparateTimestamps ==
  /\ [](\A c \in Principals : \A b \in BatchIds : \A k \in Amounts :
          (~paused /\ isProvider[c]) =>
            ((submitContributionErr(c, b, k) \in {"CooldownActive", "Panic"})
               <=> (reportUsageErr(c, b, k) \in {"CooldownActive", "Panic"})))
  /\ [][ calls' # calls =>
           /\ lastSubmissionTime' # lastSubmissionTime =>
                /\ lastDecryptionRequestTime' = lastDecryptionRequestTime
                /\ \A c \in Principals : \A b \in BatchIds :
                     requestBatchSummaryDecryptionErr(c, b)' =
                       requestBatchSummaryDecryptionErr(c, b)
           /\ lastDecryptionRequestTime' # lastDecryptionRequestTime =>
                /\ lastSubmissionTime' = lastSubmissionTime
                /\ \A c \in Principals : \A b \in BatchIds :
                     \A k \in Amounts :
                       /\ submitContributionErr(c, b, k)' =
                            submitContributionErr(c, b, k)
                       /\ reportUsageErr(c, b, k)' = reportUsageErr(c, b, k)
           /\ \A c \in Principals : \A b \in BatchIds :
                /\ (requestBatchSummaryDecryptionErr(c, b) = "ok"
                      /\ requestBatchSummaryDecryption(c, b))
                     => lastSubmissionTime' = lastSubmissionTime
                /\ \A k \in Amounts :
                     (\/ /\ submitContributionErr(c, b, k) = "ok"
                         /\ submitContribution(c, b, k)
                      \/ /\ reportUsageErr(c, b, k) = "ok"
                         /\ reportUsage(c, b, k))
                       => lastDecryptionRequestTime'
                            = lastDecryptionRequestTime ]_vars

\* a provider has just submitted: it is refused on both submission
\* functions and accepted on a decryption request
C17_Witness ==
  \E c \in Principals : \E b1, b2 \in BatchIds : \E k \in Amounts :
    /\ isProvider[c]
    /\ now > 0
    /\ lastSubmissionTime[c] = now
    /\ lastDecryptionRequestTime[c] = 0
    /\ submitContributionErr(c, b2, k) = "CooldownActive"
    /\ reportUsageErr(c, b2, k) = "CooldownActive"
    /\ requestBatchSummaryDecryptionErr(c, b1) = "ok"

(***************************************************************************)
(* C18  As claimed: while paused, openBatch, closeBatch,                   *)
(* submitContribution, reportUsage, requestBatchSummaryDecryption and the  *)
(* oracle callback all fail.                                               *)
(***************************************************************************)
C18_Original ==
  paused =>
    \A c \in Principals :
      /\ openBatchErr(c) # "ok"
      /\ \A b \in BatchIds :
           /\ closeBatchErr(c, b) # "ok"
           /\ requestBatchSummaryDecryptionErr(c, b) # "ok"
           /\ \A k \in Amounts :
                /\ submitContributionErr(c, b, k) # "ok"
                /\ reportUsageErr(c, b, k) # "ok"
      /\ \A r \in RequestIds : \A d \in Deliveries(r) :
           myCallbackErr(c, r, d[2], d[1]) # "ok"

(***************************************************************************)
(* C18  As amended: while paused, openBatch, closeBatch,                   *)
(* submitContribution, reportUsage and requestBatchSummaryDecryption fail: *)
(* with PausedError, or with NotOwner / NotProvider where the role check   *)
(* comes first and the caller lacks the role; batches, accumulators and    *)
(* rate-limit times do not change while paused.  The oracle callback has   *)
(* no pause check: while paused it is accepted for a pending request with  *)
(* a valid proof, and the only change to a decryption context while        *)
(* paused is such a callback setting processed.                            *)
(***************************************************************************)
C18_PauseGate ==
  /\ [](paused =>
          /\ \A c \in Principals :
               /\ openBatchErr(c) =
                    (IF c = owner THEN "PausedError" ELSE "NotOwner")
               /\ \A b \in BatchIds :
                    /\ closeBatchErr(c, b) =
                         (IF c = owner THEN "PausedError" ELSE "NotOwner")
                    /\ requestBatchSummaryDecryptionErr(c, b) = "PausedError"
                    /\ \A k \in Amounts :
                         /\ submitContributionErr(c, b, k) = "PausedError"
                         /\ reportUsageErr(c, b, k) =
                              (IF isProvider[c] THEN "PausedError"
                               ELSE "NotProvider")
          /\ \A r \in RequestIds :
               Pending(r) =>
                 \A c \in Principals : \A ct \in Deliverable(r, TRUE) :
                   myCallbackErr(c, r, ct, TRUE) = "ok")
  /\ [][ paused =>
           /\ currentBatchId' = currentBatchId
           /\ isBatchOpen' = isBatchOpen
           /\ totalContributionsEncrypted' = totalContributionsEncrypted
           /\ totalUsageEncrypted' = totalUsageEncrypted
           /\ lastSubmissionTime' = lastSubmissionTime
           /\ lastDecryptionRequestTime' = lastDecryptionRequestTime
           /\ \A r \in RequestIds :
                decryptionContexts'[r] # decryptionContexts[r] =>
                  /\ decryptionContexts'[r] =
                       [decryptionContexts[r] EXCEPT !.processed = TRUE]
                  /\ \E c \in Principals : \E ct \in Deliverable(r, TRUE) :
                       myCallback(c, r, ct, TRUE) ]_vars

\* the contract is paused with a batch open and a request pending
C18_Witness ==
  /\ paused
  /\ \E b \in BatchIds : isBatchOpen[b]
  /\ \E r \in RequestIds : Pending(r)

(***************************************************************************)
(* C19  pause by the owner succeeds exactly when not paused and reverts    *)
(* (PausedError) when already paused; unpause by the owner succeeds        *)
(* exactly when paused and reverts (PausedError) when not paused; the      *)
(* flag changes only in a pause that returns (to true) or an unpause that  *)
(* returns (to false), so the two strictly alternate.                      *)
(***************************************************************************)
C19_PauseAlternates ==
  /\ [](/\ pauseErr(owner) = (IF paused THEN "PausedError" ELSE "ok")
        /\ unpauseErr(owner) = (IF paused THEN "ok" ELSE "PausedError")
        /\ \A c \in Principals :
             /\ pauseErr(c) = "ok" => (c = owner /\ ~paused)
             /\ unpauseErr(c) = "ok" => (c = owner /\ paused))
  /\ [][ /\ \A c \in Principals :
              /\ (pauseErr(c) = "ok" /\ pause(c)) => (~paused /\ paused')
              /\ (unpauseErr(c) = "ok" /\ unpause(c)) => (paused /\ ~paused')
         /\ paused' # paused =>
              IF paused'
                THEN \E c \in Principals : pauseErr(c) = "ok" /\ pause(c)
                ELSE \E c \in Principals :
                       unpauseErr(c) = "ok" /\ unpause(c) ]_vars

\* the contract was paused, unpaused and paused again
C19_Witness ==
  /\ paused
  /\ calls >= 3
  /\ currentBatchId = 1
  /\ owner = Deployer
  /\ cooldownSeconds = DefaultCooldown
  /\ isProvider = [c \in Principals |-> c = Deployer]

(***************************************************************************)
(* C20  Exactly one principal passes the owner check; called by anyone     *)
(* else, transferOwnership, addProvider, removeProvider, pause, unpause,   *)
(* setCooldownSeconds, openBatch and closeBatch revert with NotOwner;      *)
(* transferOwnership by the owner succeeds for every newOwner, paused or   *)
(* not, and afterwards newOwner and nobody else passes the owner check;    *)
(* the owner changes in no other step; reportUsage by a principal that is  *)
(* not a provider reverts with NotProvider.                                *)
(***************************************************************************)
C20_RoleChecks ==
  /\ [](/\ Cardinality({c \in Principals : onlyOwner(c) = "ok"}) = 1
        /\ \A c \in Principals \ {owner} :
             /\ pauseErr(c) = "NotOwner"
             /\ unpauseErr(c) = "NotOwner"
             /\ openBatchErr(c) = "NotOwner"
             /\ \A p \in Principals :
                  /\ transferOwnershipErr(c, p) = "NotOwner"
                  /\ addProviderErr(c, p) = "NotOwner"
                  /\ removeProviderErr(c, p) = "NotOwner"
             /\ \A n \in CooldownValues :
                  setCooldownSecondsErr(c, n) = "NotOwner"
             /\ \A b \in BatchIds : closeBatchErr(c, b) = "NotOwner"
        /\ \A p \in Principals : transferOwnershipErr(owner, p) = "ok"
        /\ \A c \in Principals : \A b \in BatchIds : \A k \in Amounts :
             ~isProvider[c] => reportUsageErr(c, b, k) = "NotProvider")
  /\ [][ /\ \A c, p \in Principals :
              (transferOwnershipErr(c, p) = "ok" /\ transferOwnership(c, p))
                => /\ owner' = p
                   /\ \A q \in Principals : (onlyOwner(q)' = "ok") <=> q = p
         /\ owner' # owner =>
              \E c, p \in Principals :
                transferOwnershipErr(c, p) = "ok" /\ transferOwnership(c, p)
       ]_vars

\* ownership has moved to a principal that is not a provider, while paused:
\* the deployer no longer passes the owner check, the new owner does, and
\* the new owner's usage report is refused for want of the provider role
C20_Witness ==
  /\ owner # Deployer
  /\ paused
  /\ ~isProvider[owner]
  /\ openBatchErr(Deployer) = "NotOwner"
  /\ \A p \in Principals : transferOwnershipErr(owner, p) = "ok"
  /\ \E b \in BatchIds : \E k \in Amounts :
       reportUsageErr(owner, b, k) = "NotProvider"

(***************************************************************************)
(* C21  addProvider and removeProvider are idempotent: called by the owner *)
(* they always return; when the principal already holds (does not hold)    *)
(* the role, addProvider (removeProvider) emits no event and leaves the    *)
(* whole storage as it was; otherwise exactly one event is emitted and     *)
(* only that principal's role changes; after either call a repetition of   *)
(* it would emit nothing, so calling twice has the effect of calling once. *)
(***************************************************************************)
C21_ProviderIdempotent ==
  /\ [](\A p \in Principals :
          /\ addProviderErr(owner, p) = "ok"
          /\ removeProviderErr(owner, p) = "ok"
          /\ addProviderEvents(owner, p) =
               (IF isProvider[p] THEN << >>
                ELSE << << "ProviderAdded", p >> >>)
          /\ removeProviderEvents(owner, p) =
               (IF isProvider[p] THEN << << "ProviderRemoved", p >> >>
                ELSE << >>))
  /\ [][ calls' # calls =>
           \A c, p \in Principals :
             /\ (addProviderErr(c, p) = "ok" /\ addProvider(c, p)) =>
                  /\ isProvider[p] => storage' = storage
                  /\ isProvider' = [isProvider EXCEPT ![p] = TRUE]
                  /\ addProviderEvents(c, p)' = << >>
             /\ (removeProviderErr(c, p) = "ok" /\ removeProvider(c, p)) =>
                  /\ ~isProvider[p] => storage' = storage
                  /\ isProvider' = [isProvider EXCEPT ![p] = FALSE]
                  /\ removeProviderEvents(c, p)' = << >> ]_vars

\* two owner calls have returned and the only trace is the oracle's provider
\* role: the second call added a provider that was already one (or repeated
\* some other setting), and the storage shows a single addition
C21_Witness ==
  /\ calls = 2
  /\ isProvider = [p \in Principals |-> TRUE]
  /\ owner = Deployer
  /\ ~paused
  /\ cooldownSeconds = DefaultCooldown
  /\ currentBatchId = 1

\* either accumulator of the batch was never initialised
NeverInitialized(b) ==
  \/ ~isInitialized(totalContributionsEncrypted[b])
  \/ ~isInitialized(totalUsageEncrypted[b])

(***************************************************************************)
(* C22  As claimed: requestBatchSummaryDecryption(b) reverts with          *)
(* InvalidBatchId whenever either accumulator of b was never initialised,  *)
(* whoever calls and whatever the pause flag and the caller's cooldown.    *)
(***************************************************************************)
C22_Original ==
  \A c \in Principals : \A b \in BatchIds :
    NeverInitialized(b) =>
      requestBatchSummaryDecryptionErr(c, b) = "InvalidBatchId"

(***************************************************************************)
(* C22  As amended: requestBatchSummaryDecryption(b) reverts whenever      *)
(* either accumulator of b was never initialised, which is the case of     *)
(* ids 0 and 1 and of every id above the counter; the error is             *)
(* InvalidBatchId when the contract is not paused and the caller's         *)
(* decryption cooldown has elapsed, and otherwise that of the earlier      *)
(* check: PausedError, else CooldownActive (or the arithmetic panic).      *)
(* A step that stores a context or takes an oracle id is a request for an  *)
(* initialised batch, and every stored context names a batch that was      *)
(* opened (2 <= id <= counter) and then closed.                            *)
(***************************************************************************)
C22_UninitializedRequestFails ==
  /\ [](/\ \A b \in BatchIds :
             (b < 2 \/ b > currentBatchId) => NeverInitialized(b)
        /\ \A c \in Principals : \A b \in BatchIds :
             NeverInitialized(b) =>
               LET err  == requestBatchSummaryDecryptionErr(c, b)
                   cool == Elapsed(lastDecryptionRequestTime[c])
               IN  /\ err # "ok"
                   /\ paused => err = "PausedError"
                   /\ (~paused /\ ~cool) => err \in {"CooldownActive", "Panic"}
                   /\ (~paused /\ cool) => err = "InvalidBatchId"
        /\ \A r \in RequestIds :
             decryptionContexts[r] # NoContext =>
               /\ Issued(r)
               /\ decryptionContexts[r].batchId \in everClosed
               /\ decryptionContexts[r].batchId \in 2 .. currentBatchId
               /\ ~NeverInitialized(decryptionContexts[r].batchId))
  /\ [][ (calls' # calls /\ (\/ counterRequest' # counterRequest
                             \/ oracleRequests' # oracleRequests
                             \/ \E r \in RequestIds :
                                  /\ decryptionContexts[r] = NoContext
                                  /\ decryptionContexts'[r] # NoContext)) =>
           \E c \in Principals : \E b \in BatchIds :
             /\ requestBatchSummaryDecryptionErr(c, b) = "ok"
             /\ requestBatchSummaryDecryption(c, b)
             /\ ~NeverInitialized(b)
             /\ b \in everClosed ]_vars

\* a context is stored for a closed batch; now one caller, outside its
\* cooldown, is refused a never-opened id with InvalidBatchId while the
\* requester, inside its cooldown, is refused the same id with CooldownActive
C22_Witness ==
  \E r \in RequestIds : \E c1, c2 \in Principals : \E b \in BatchIds :
    /\ decryptionContexts[r] # NoContext
    /\ b > currentBatchId
    /\ requestBatchSummaryDecryptionErr(c1, b) = "InvalidBatchId"
    /\ requestBatchSummaryDecryptionErr(c1, 0) = "InvalidBatchId"
    /\ requestBatchSummaryDecryptionErr(c1, 1) = "InvalidBatchId"
    /\ lastDecryptionRequestTime[c2] > 0
    /\ requestBatchSummaryDecryptionErr(c2, b) = "CooldownActive"

\* what a call can change: the contract's storage, the oracle's requests and
\* the events recorded
Effects ==
  << storage, counterRequest, oracleRequests, everClosed,
     decryptionCompleted >>

(***************************************************************************)
(* C23  A call of any function that fails, with any error, changes         *)
(* nothing: roles, pause flag, cooldownSeconds, both timestamp maps, the   *)
(* batch counter and open flags, the accumulators, the decryption contexts *)
(* and the oracle's requests are as before and no event is recorded; so a  *)
(* failed request leaves the requester's decryption-request time and a     *)
(* failed callback leaves the processed flag.  Stated of every step that   *)
(* changes any of these: whichever call the step is, all the checks of     *)
(* that call pass.                                                         *)
(***************************************************************************)
C23_FailureChangesNothing ==
  [][ UNCHANGED Effects \/ \A c \in Principals :
        /\ \A p \in Principals :
             /\ transferOwnership(c, p)
                  => transferOwnershipErr(c, p) = "ok"
             /\ addProvider(c, p) => addProviderErr(c, p) = "ok"
             /\ removeProvider(c, p) => removeProviderErr(c, p) = "ok"
        /\ pause(c) => pauseErr(c) = "ok"
        /\ unpause(c) => unpauseErr(c) = "ok"
        /\ openBatch(c) => openBatchErr(c) = "ok"
        /\ \A n \in CooldownValues :
             setCooldownSeconds(c, n) => setCooldownSecondsErr(c, n) = "ok"
        /\ \A b \in BatchIds :
             /\ closeBatch(c, b) => closeBatchErr(c, b) = "ok"
             /\ requestBatchSummaryDecryption(c, b)
                  => requestBatchSummaryDecryptionErr(c, b) = "ok"
             /\ \A k \in Amounts :
                  /\ submitContribution(c, b, k)
                       => submitContributionErr(c, b, k) = "ok"
                  /\ reportUsage(c, b, k) => reportUsageErr(c, b, k) = "ok"
        /\ \A r \in RequestIds : \A d \in Deliveries(r) :
             myCallback(c, r, d[2], d[1])
               => myCallbackErr(c, r, d[2], d[1]) = "ok" ]_vars

\* a state in which calls fail in several ways: with one request completed,
\* a replayed callback, a request for a never-opened batch by another
\* caller, a request inside the requester's cooldown and an owner call by a
\* stranger are all refused
C23_Witness ==
  \E r \in RequestIds : \E c1, c2 \in Principals :
    /\ r \in completed
    /\ \A d \in Deliveries(r) : myCallbackErr(c1, r, d[2], d[1]) = "ReplayDetected"
    /\ requestBatchSummaryDecryptionErr(c1, 0) = "InvalidBatchId"
    /\ requestBatchSummaryDecryptionErr(c2, 0) = "CooldownActive"
    /\ openBatchErr(c1) = "NotOwner"

(***************************************************************************)
(* C24  As claimed: a submitContribution or reportUsage naming b is        *)
(* accepted only if b is open, and no batch other than the one opened      *)
(* last is open, so that openBatch never leaves an earlier batch accepting *)
(* writes alongside the new one.                                           *)
(***************************************************************************)
C24_Original ==
  /\ \A c \in Principals : \A b \in BatchIds : \A k \in Amounts :
       /\ submitContributionErr(c, b, k) = "ok" => isBatchOpen[b]
       /\ reportUsageErr(c, b, k) = "ok" => isBatchOpen[b]
  /\ \A b \in BatchIds : isBatchOpen[b] => b = currentBatchId

(***************************************************************************)
(* C24  As amended: several batch ids may exist, and several may be open,  *)
(* at once; a submitContribution or reportUsage naming b is accepted only  *)
(* if b is open at that moment, and changes the accumulators of no other   *)
(* batch; openBatch opens the new id and leaves the open flag of every     *)
(* earlier batch as it was, so an earlier batch that was not closed keeps  *)
(* accepting writes alongside the newly opened one.                        *)
(***************************************************************************)
C24_WritesOnlyToOpenBatches ==
  /\ [](/\ \A c \in Principals : \A b \in BatchIds : \A k \in Amounts :
             /\ submitContributionErr(c, b, k) = "ok" => isBatchOpen[b]
             /\ reportUsageErr(c, b, k) = "ok" => isBatchOpen[b]
        /\ \A b \in BatchIds : isBatchOpen[b] => b \in 2 .. currentBatchId)
  /\ [][ calls' # calls =>
           /\ \A c \in Principals :
                (openBatchErr(c) = "ok" /\ openBatch(c)) =>
                  /\ isBatchOpen'[currentBatchId']
                  /\ \A b \in BatchIds \ {currentBatchId'} :
                       isBatchOpen'[b] = isBatchOpen[b]
           /\ \A c \in Principals : \A b \in BatchIds : \A k \in Amounts :
                /\ (submitContributionErr(c, b, k) = "ok"
                      /\ submitContribution(c, b, k)) =>
                     /\ isBatchOpen[b]
                     /\ \A o \in BatchIds \ {b} :
                          totalContributionsEncrypted'[o]
                            = totalContributionsEncrypted[o]
                     /\ UNCHANGED << totalUsageEncrypted, isBatchOpen >>
                /\ (reportUsageErr(c, b, k) = "ok" /\ reportUsage(c, b, k)) =>
                     /\ isBatchOpen[b]
                     /\ \A o \in BatchIds \ {b} :
                          totalUsageEncrypted'[o] = totalUsageEncrypted[o]
                     /\ UNCHANGED << totalContributionsEncrypted,
                                     isBatchOpen >> ]_vars

\* two batches are open at once and each has taken a write after the later
\* one was opened
C24_Witness ==
  \E b1, b2 \in BatchIds :
    /\ b1 < b2
    /\ isBatchOpen[b1]
    /\ isBatchOpen[b2]
    /\ Len(totalContributionsEncrypted[b1].handle) > 1
    /\ Len(totalContributionsEncrypted[b2].handle)
         + Len(totalUsageEncrypted[b2].handle) > 2

(***************************************************************************)
(* The contract with an oracle that answers.  The bound on the number of   *)
(* calls keeps one call in reserve for every pending request, so that the  *)
(* bound never stands in the way of a delivery; the oracle's relayer keeps *)
(* trying to deliver the decryption of every request with a valid proof.   *)
(***************************************************************************)
Reserved ==
  calls + Cardinality({ r \in RequestIds : Pending(r) }) <= MaxCalls

\* the oracle's relayer delivers the decryption of request r with its proof
OracleDelivers(r) ==
  \E ct \in Deliverable(r, TRUE) : myCallback(Oracle, r, ct, TRUE)

FairNext ==
  \/ \E c \in Principals, p \in Principals :
       transferOwnership(c, p) /\ Reserved'
  \/ \E c \in Principals, p \in Principals : addProvider(c, p) /\ Reserved'
  \/ \E c \in Principals, p \in Principals :
       removeProvider(c, p) /\ Reserved'
  \/ \E c \in Principals : pause(c) /\ Reserved'
  \/ \E c \in Principals : unpause(c) /\ Reserved'
  \/ \E c \in Principals, n \in CooldownValues :
       setCooldownSeconds(c, n) /\ Reserved'
  \/ \E c \in Principals : openBatch(c) /\ Reserved'
  \/ \E c \in Principals, b \in BatchIds : closeBatch(c, b) /\ Reserved'
  \/ \E c \in Principals, b \in BatchIds, k \in Amounts :
       submitContribution(c, b, k) /\ Reserved'
  \/ \E c \in Principals, b \in BatchIds, k \in Amounts :
       reportUsage(c, b, k) /\ Reserved'
  \/ \E c \in Principals, b \in BatchIds :
       requestBatchSummaryDecryption(c, b) /\ Reserved'
  \/ \E c \in Principals, r \in RequestIds, ok \in BOOLEAN :
       \E ct \in Deliverable(r, ok) : myCallback(c, r, ct, ok) /\ Reserved'
  \/ Tick

Fairness == \A r \in RequestIds : WF_vars(OracleDelivers(r))

FairSpec == Init /\ [][FairNext]_vars /\ Fairness

(***************************************************************************)
(* C25  A pending request has no expiry, retry or cancellation: a stored   *)
(* context changes in no step but a callback for its requestId that        *)
(* returns, which sets processed; passing time, pause, ownership and role  *)
(* changes, new batches and other requests leave it pending.  With an      *)
(* oracle that keeps delivering a valid proof, every pending request is    *)
(* eventually processed, whatever happens in between.                      *)
(***************************************************************************)
C25_PendingUntilDelivered ==
  /\ [][ \A r \in RequestIds :
           (Issued(r) /\ decryptionContexts'[r] # decryptionContexts[r]) =>
             /\ ~decryptionContexts[r].processed
             /\ decryptionContexts'[r] =
                  [decryptionContexts[r] EXCEPT !.processed = TRUE]
             /\ \E c \in Principals : \E d \in Deliveries(r) :
                  /\ myCallbackErr(c, r, d[2], d[1]) = "ok"
                  /\ myCallback(c, r, d[2], d[1]) ]_vars
  /\ \A r \in RequestIds :
       (Issued(r) /\ ~decryptionContexts[r].processed)
         ~> decryptionContexts[r].processed

\* a request has been processed and the contract is paused
C25_Witness ==
  \E r \in RequestIds :
    /\ Issued(r)
    /\ decryptionContexts[r].processed
    /\ paused

\* errors of the kind "the callback protocol's trust assumptions are violated"
IntegrityErrors == {"ReplayDetected", "StateMismatch", "InvalidProof"}

(***************************************************************************)
(* C26  As claimed: once a callback for a requestId has failed with an     *)
(* integrity error, no later callback for that requestId is accepted.  A   *)
(* failed call leaves the state as it was, so the claim says of every      *)
(* state: if some callback for r would fail with an integrity error, then  *)
(* no callback for r would be accepted.                                    *)
(***************************************************************************)
C26_Original ==
  \A r \in RequestIds :
    (\E c \in Principals : \E d \in Deliveries(r) :
       myCallbackErr(c, r, d[2], d[1]) \in IntegrityErrors)
      => \A c \in Principals : \A d \in Deliveries(r) :
           myCallbackErr(c, r, d[2], d[1]) # "ok"

(***************************************************************************)
(* C26  As amended: only ReplayDetected is terminal.  The processed flag   *)
(* is set exactly for the requests a callback was accepted for and is      *)
(* never cleared, and every later callback for such a request fails with   *)
(* ReplayDetected.  A callback that fails on its proof (or with            *)
(* StateMismatch, for an id no context is stored for yet) retires nothing: *)
(* for a pending request a call with a failing proof is refused with       *)
(* InvalidProof while a call with a valid proof is still accepted, and an  *)
(* id refused with StateMismatch is accepted once the oracle has handed it *)
(* out.                                                                    *)
(***************************************************************************)
C26_OnlyReplayIsTerminal ==
  /\ [](\A r \in RequestIds : \A c \in Principals :
          /\ decryptionContexts[r].processed <=> r \in completed
          /\ r \in completed =>
               \A d \in Deliveries(r) :
                 myCallbackErr(c, r, d[2], d[1]) = "ReplayDetected"
          /\ Pending(r) =>
               /\ \A ct \in Deliverable(r, FALSE) :
                    myCallbackErr(c, r, ct, FALSE) = "InvalidProof"
               /\ \A ct \in Deliverable(r, TRUE) :
                    myCallbackErr(c, r, ct, TRUE) = "ok"
          /\ ~Issued(r) =>
               \A d \in Deliveries(r) :
                 myCallbackErr(c, r, d[2], d[1]) = "StateMismatch")
  /\ [][ \A r \in RequestIds :
           /\ decryptionContexts[r].processed
                => decryptionContexts'[r].processed
           /\ r \in completed => r \in completed' ]_vars

\* one request is completed, so that every callback for it is a replay,
\* another is pending, so that a failing proof is refused and a valid one
\* still accepted, and the contract is not where it started
C26_Witness ==
  \E r1, r2 \in RequestIds :
    /\ r1 \in completed
    /\ Pending(r2)
    /\ \E ct \in Deliverable(r2, FALSE) :
         myCallbackErr(Oracle, r2, ct, FALSE) = "InvalidProof"

(***************************************************************************)
(* C27  As claimed: requestBatchSummaryDecryption reports the first check  *)
(* that fails, in the order paused (PausedError), requester's decryption   *)
(* cooldown not elapsed (CooldownActive), batch still open (BatchNotOpen), *)
(* accumulator never initialised (InvalidBatchId), and succeeds when none  *)
(* fails.                                                                  *)
(***************************************************************************)
C27_Original ==
  \A c \in Principals : \A b \in BatchIds :
    requestBatchSummaryDecryptionErr(c, b) =
      (IF paused THEN "PausedError"
       ELSE IF ~Elapsed(lastDecryptionRequestTime[c]) THEN "CooldownActive"
       ELSE IF isBatchOpen[b] THEN "BatchNotOpen"
       ELSE IF NeverInitialized(b) THEN "InvalidBatchId"
       ELSE "ok")

(***************************************************************************)
(* C27  As amended: the same order, paused, cooldown, batch still open,    *)
(* InvalidBatchId, the first failing check being reported; the cooldown    *)
(* check fails with CooldownActive, except that it fails with the          *)
(* arithmetic panic when the requester's last time plus cooldownSeconds    *)
(* does not fit in uint256.  So a requester inside the cooldown window is  *)
(* refused at the cooldown check whatever the batch id, and only a call    *)
(* that passes all four checks takes an id from the oracle and stores a    *)
(* context.                                                                *)
(***************************************************************************)
C27_RequestCheckOrder ==
  /\ [](\A c \in Principals : \A b \in BatchIds :
          requestBatchSummaryDecryptionErr(c, b) =
            (IF paused THEN "PausedError"
             ELSE IF Overflows(lastDecryptionRequestTime[c]) THEN "Panic"
             ELSE IF ~Elapsed(lastDecryptionRequestTime[c])
               THEN "CooldownActive"
             ELSE IF isBatchOpen[b] THEN "BatchNotOpen"
             ELSE IF NeverInitialized(b) THEN "InvalidBatchId"
             ELSE "ok"))
  /\ [][ calls' # calls =>
           /\ \A c \in Principals : \A b \in BatchIds :
                (requestBatchSummaryDecryptionErr(c, b) = "ok"
                   /\ requestBatchSummaryDecryption(c, b)) =>
                  /\ ~paused
                  /\ Elapsed(lastDecryptionRequestTime[c])
                  /\ ~isBatchOpen[b]
                  /\ ~NeverInitialized(b)
                  /\ counterRequest' = counterRequest + 1
                  /\ oracleRequests'[requestDecryption] # << >>
                  /\ decryptionContexts'[requestDecryption].batchId = b
           /\ (\/ counterRequest' # counterRequest
               \/ \E r \in RequestIds :
                    ~Issued(r) /\ decryptionContexts'[r] # NoContext) =>
                \E c \in Principals : \E b \in BatchIds :
                  /\ requestBatchSummaryDecryptionErr(c, b) = "ok"
                  /\ requestBatchSummaryDecryption(c, b) ]_vars

\* a requester inside its cooldown window is refused with CooldownActive
\* for an open batch and for a never-opened id alike, while another caller,
\* outside the window, is told BatchNotOpen for the one and InvalidBatchId
\* for the other
C27_Witness ==
  \E c1, c2 \in Principals : \E b1, b2 \in BatchIds :
    /\ lastDecryptionRequestTime[c1] > 0
    /\ isBatchOpen[b1]
    /\ b2 < 2
    /\ requestBatchSummaryDecryptionErr(c1, b1) = "CooldownActive"
    /\ requestBatchSummaryDecryptionErr(c1, b2) = "CooldownActive"
    /\ requestBatchSummaryDecryptionErr(c2, b1) = "BatchNotOpen"
    /\ requestBatchSummaryDecryptionErr(c2, b2) = "InvalidBatchId"

(***************************************************************************)
(* C28  A callback for requestId that returns finds the context not        *)
(* processed and sets its processed flag, leaving its batchId and          *)
(* stateHash; it emits exactly one event, DecryptionCompleted with the     *)
(* requestId, the context's batchId and the two decoded totals; every      *)
(* other context, the accumulators, the open flags and the batch counter,  *)
(* both timestamp maps, the roles, the pause flag, cooldownSeconds and the *)
(* oracle's requests are unchanged.                                        *)
(***************************************************************************)
C28_CallbackFrame ==
  [][ calls' # calls =>
        \A c \in Principals : \A r \in RequestIds : \A d \in Deliveries(r) :
          (myCallbackErr(c, r, d[2], d[1]) = "ok"
             /\ myCallback(c, r, d[2], d[1])) =>
            /\ ~decryptionContexts[r].processed
            /\ decryptionContexts' =
                 [decryptionContexts EXCEPT ![r].processed = TRUE]
            /\ myCallbackEvents(c, r, d[2], d[1]) =
                 << << "DecryptionCompleted", r, decryptionContexts[r].batchId,
                       d[2][1], d[2][2] >> >>
            /\ decryptionCompleted' = decryptionCompleted \cup
                 { << r, decryptionContexts[r].batchId, d[2][1], d[2][2] >> }
            /\ Cardinality(decryptionCompleted')
                 = Cardinality(decryptionCompleted) + 1
            /\ UNCHANGED << owner, isProvider, paused, cooldownSeconds,
                            lastSubmissionTime, lastDecryptionRequestTime,
                            currentBatchId, isBatchOpen,
                            totalContributionsEncrypted, totalUsageEncrypted,
                            counterRequest, oracleRequests, everClosed >>
    ]_vars

\* a callback has returned for a batch that had taken a contribution: the
\* event carries a total that is not zero, the flag is set, and the
\* requester's time is still that of its request
C28_Witness ==
  \E e \in decryptionCompleted :
    /\ e[3] # Zero32
    /\ decryptionContexts[e[1]].processed
    /\ decryptionContexts[e[1]].batchId = e[2]
    /\ e[2] \in everClosed

(***************************************************************************)
(* C29  Every batch that is open or was ever opened (ids 2 to the          *)
(* counter, every open and every closed batch) has both accumulators       *)
(* initialised, and no other id has either; so every merge that would be   *)
(* accepted reads an initialised accumulator and the init-if-needed step   *)
(* leaves it as it is.                                                     *)
(***************************************************************************)
C29_OpenedBatchesInitialized ==
  /\ \A b \in BatchIds :
       /\ (isBatchOpen[b] \/ b \in everClosed) => b \in 2 .. currentBatchId
       /\ b \in 2 .. currentBatchId =>
            /\ isInitialized(totalContributionsEncrypted[b])
            /\ isInitialized(totalUsageEncrypted[b])
       /\ b \notin 2 .. currentBatchId =>
            /\ ~isInitialized(totalContributionsEncrypted[b])
            /\ ~isInitialized(totalUsageEncrypted[b])
  /\ \A c \in Principals : \A b \in BatchIds : \A k \in Amounts :
       /\ submitContributionErr(c, b, k) = "ok" =>
            /\ isInitialized(totalContributionsEncrypted[b])
            /\ _initIfNeeded(totalContributionsEncrypted[b])
                 = totalContributionsEncrypted[b]
       /\ reportUsageErr(c, b, k) = "ok" =>
            /\ isInitialized(totalUsageEncrypted[b])
            /\ _initIfNeeded(totalUsageEncrypted[b]) = totalUsageEncrypted[b]

\* one batch is closed and a later one is open and has taken a usage report
\* on top of the zero it was opened with
C29_Witness ==
  \E b1 \in everClosed : \E b2 \in BatchIds :
    /\ b1 < b2
    /\ isBatchOpen[b2]
    /\ Len(totalUsageEncrypted[b2].handle) > 1
    /\ totalContributionsEncrypted[b2] = asEuint32Zero

\* what the claim compares between two runs: everything but the ciphertexts
\* (accumulators, state hashes, the oracle's copies) and the decoded totals
PublicState ==
  << owner, isProvider, paused, cooldownSeconds,
     lastSubmissionTime, lastDecryptionRequestTime,
     currentBatchId, isBatchOpen,
     [r \in RequestIds |-> << decryptionContexts[r].batchId,
                              decryptionContexts[r].processed >>],
     [b \in BatchIds |-> ~NeverInitialized(b)],
     counterRequest, now >>

(***************************************************************************)
(* C30  The protocol never branches on plaintext.  In every state the      *)
(* outcome (success or the error kind) of each operation that handles      *)
(* ciphertexts is a function of the public state and of the call's caller, *)
(* batch id, request id and proof validity, the same for every encrypted   *)
(* amount and every decoded total; and the public state after the call is  *)
(* a function of the public state before it and of those same arguments.   *)
(* Two runs of one operation sequence that differ only in the encrypted    *)
(* amounts therefore agree, step by step, on every outcome and on roles,   *)
(* pause flag, open flags, counter, timestamps and processed flags.        *)
(***************************************************************************)
C30_NoBranchOnPlaintext ==
  /\ [](\A c \in Principals :
          LET cooldown(last) ==
                IF Overflows(last) THEN "Panic"
                ELSE IF ~Elapsed(last) THEN "CooldownActive" ELSE "ok"
          IN  /\ \A b \in BatchIds :
                   /\ \A k \in Amounts :
                        /\ submitContributionErr(c, b, k) =
                             (IF paused THEN "PausedError"
                              ELSE IF cooldown(lastSubmissionTime[c]) # "ok"
                                THEN cooldown(lastSubmissionTime[c])
                              ELSE IF ~isBatchOpen[b] THEN "BatchNotOpen"
                              ELSE "ok")
                        /\ reportUsageErr(c, b, k) =
                             (IF ~isProvider[c] THEN "NotProvider"
                              ELSE IF paused THEN "PausedError"
                              ELSE IF cooldown(lastSubmissionTime[c]) # "ok"
                                THEN cooldown(lastSubmissionTime[c])
                              ELSE IF ~isBatchOpen[b] THEN "BatchNotOpen"
                              ELSE "ok")
                   /\ requestBatchSummaryDecryptionErr(c, b) =
                        (IF paused THEN "PausedError"
                         ELSE IF cooldown(lastDecryptionRequestTime[c]) # "ok"
                           THEN cooldown(lastDecryptionRequestTime[c])
                         ELSE IF isBatchOpen[b] THEN "BatchNotOpen"
                         ELSE IF b \notin 2 .. currentBatchId
                           THEN "InvalidBatchId"
                         ELSE "ok")
              /\ \A r \in RequestIds : \A d \in Deliveries(r) :
                   myCallbackErr(c, r, d[2], d[1]) =
                     (IF decryptionContexts[r].processed
                        THEN "ReplayDetected"
                      ELSE IF r \notin 1 .. counterRequest - 1
                        THEN "StateMismatch"
                      ELSE IF d[1] THEN "ok" ELSE "InvalidProof"))
  /\ [][ calls' # calls =>
           \A c \in Principals :
             /\ \A b \in BatchIds : \A k \in Amounts :
                  /\ (submitContributionErr(c, b, k) = "ok"
                        /\ submitContribution(c, b, k)) =>
                       PublicState' =
                         << owner, isProvider, paused, cooldownSeconds,
                            [lastSubmissionTime EXCEPT ![c] = now],
                            lastDecryptionRequestTime,
                            currentBatchId, isBatchOpen,
                            PublicState[9], PublicState[10],
                            counterRequest, now >>
                  /\ (reportUsageErr(c, b, k) = "ok"
                        /\ reportUsage(c, b, k)) =>
                       PublicState' =
                         << owner, isProvider, paused, cooldownSeconds,
                            [lastSubmissionTime EXCEPT ![c] = now],
                            lastDecryptionRequestTime,
                            currentBatchId, isBatchOpen,
                            PublicState[9], PublicState[10],
                            counterRequest, now >>
             /\ \A b \in BatchIds :
                  (requestBatchSummaryDecryptionErr(c, b) = "ok"
                     /\ requestBatchSummaryDecryption(c, b)) =>
                    PublicState' =
                      << owner, isProvider, paused, cooldownSeconds,
                         lastSubmissionTime,
                         [lastDecryptionRequestTime EXCEPT ![c] = now],
                         currentBatchId, isBatchOpen,
                         [PublicState[9] EXCEPT
                            ![counterRequest] = << b, FALSE >>],
                         PublicState[10],
                         counterRequest + 1, now >>
             /\ \A r \in RequestIds : \A d \in Deliveries(r) :
                  (myCallbackErr(c, r, d[2], d[1]) = "ok"
                     /\ myCallback(c, r, d[2], d[1])) =>
                    PublicState' =
                      << owner, isProvider, paused, cooldownSeconds,
                         lastSubmissionTime, lastDecryptionRequestTime,
                         currentBatchId, isBatchOpen,
                         [PublicState[9] EXCEPT
                            ![r] = << PublicState[9][r][1], TRUE >>],
                         PublicState[10],
                         counterRequest, now >> ]_vars

\* a batch took the larger amount, was closed, requested and completed with
\* that total, the calls taking the same course as with any other amount
C30_Witness ==
  \E e \in decryptionCompleted :
    /\ e[3] = Plain(2)
    /\ e[4] = Zero32
    /\ totalContributionsEncrypted[e[2]].handle = << 0, 2 >>

\* the sum modulo 2^32, from zero, of the amounts a handle records as merged
RECURSIVE SumOfMerged(_)
SumOfMerged(h) ==
  IF Len(h) <= 1 THEN Zero32
  ELSE Add32(SumOfMerged(SubSeq(h, 1, Len(h) - 1)), Plain(h[Len(h)]))

(***************************************************************************)
(* C31  For every batch b that was opened, the contributions accumulator   *)
(* holds the sum modulo 2^32, from zero, of the amounts of exactly the     *)
(* accepted submitContribution(b, .) calls, in their order, and the usage  *)
(* accumulator that of exactly the accepted reportUsage(b, .) calls: an    *)
(* accepted contribution of amount k to b adds k to the contributions of b *)
(* and changes no usage accumulator and no accumulator of another batch,   *)
(* an accepted usage report does the same for the usage of b, and an       *)
(* accumulator changes in no other step but the openBatch that sets both   *)
(* accumulators of the new id to zero.                                     *)
(***************************************************************************)
C31_AccumulatorIsSumOfAccepted ==
  /\ [](\A b \in BatchIds :
          /\ isInitialized(totalContributionsEncrypted[b]) =>
               /\ totalContributionsEncrypted[b].handle[1] = 0
               /\ totalContributionsEncrypted[b].val
                    = SumOfMerged(totalContributionsEncrypted[b].handle)
          /\ isInitialized(totalUsageEncrypted[b]) =>
               /\ totalUsageEncrypted[b].handle[1] = 0
               /\ totalUsageEncrypted[b].val
                    = SumOfMerged(totalUsageEncrypted[b].handle))
  /\ [][ (\/ totalContributionsEncrypted' # totalContributionsEncrypted
          \/ totalUsageEncrypted' # totalUsageEncrypted) =>
           \/ \E c \in Principals : \E b \in BatchIds : \E k \in Amounts :
                /\ submitContributionErr(c, b, k) = "ok"
                /\ submitContribution(c, b, k)
                /\ totalContributionsEncrypted' =
                     [totalContributionsEncrypted EXCEPT ![b] =
                        [handle |-> Append(@.handle, k),
                         val |-> Add32(@.val, Plain(k))]]
                /\ totalUsageEncrypted' = totalUsageEncrypted
           \/ \E c \in Principals : \E b \in BatchIds : \E k \in Amounts :
                /\ reportUsageErr(c, b, k) = "ok"
                /\ reportUsage(c, b, k)
                /\ totalUsageEncrypted' =
                     [totalUsageEncrypted EXCEPT ![b] =
                        [handle |-> Append(@.handle, k),
                         val |-> Add32(@.val, Plain(k))]]
                /\ totalContributionsEncrypted' = totalContributionsEncrypted
           \/ \E c \in Principals :
                /\ openBatchErr(c) = "ok"
                /\ openBatch(c)
                /\ totalContributionsEncrypted' =
                     [totalContributionsEncrypted
                        EXCEPT ![currentBatchId'] = asEuint32Zero]
                /\ totalUsageEncrypted' =
                     [totalUsageEncrypted
                        EXCEPT ![currentBatchId'] = asEuint32Zero] ]_vars

\* a batch has taken the largest amount and then 100: its contributions
\* have wrapped around 2^32 to 99, its usage is still the zero it was
\* opened with
C31_Witness ==
  \E b \in BatchIds :
    /\ totalContributionsEncrypted[b].handle = << 0, 2, 1 >>
    /\ totalContributionsEncrypted[b].val = << 0, 99 >>
    /\ totalUsageEncrypted[b] = asEuint32Zero

CooldownCheckWith(last, n) ==
  LET until == Add256(last, n)
  IN  IF until = Overflow THEN "Panic"
      ELSE IF Lt256(now, until) THEN "CooldownActive"
      ELSE "ok"

(***************************************************************************)
(* C33  The cooldown check reads the current cooldownSeconds and the       *)
(* stored last time, and no recorded time lies in the future; so while     *)
(* cooldownSeconds is 0 no submission, usage report or request fails with  *)
(* CooldownActive (or the overflow panic).  setCooldownSeconds(n) by the   *)
(* owner always returns, changes cooldownSeconds to n and no timestamp,    *)
(* and from the next call on every principal's check is the one its        *)
(* unchanged last time gives with n: n = 0 passes every principal,         *)
(* including those that were refused before, and a larger n refuses        *)
(* principals that passed before, without any action of theirs.            *)
(***************************************************************************)
C33_CooldownChangeIsRetroactive ==
  /\ [](/\ \A c \in Principals :
             /\ lastSubmissionTime[c] <= now
             /\ lastDecryptionRequestTime[c] <= now
             /\ CooldownCheck(lastSubmissionTime[c])
                  = CooldownCheckWith(lastSubmissionTime[c], cooldownSeconds)
             /\ \A n \in CooldownValues : setCooldownSecondsErr(owner, n) = "ok"
        /\ cooldownSeconds = 0 =>
             \A c \in Principals : \A b \in BatchIds :
               /\ requestBatchSummaryDecryptionErr(c, b)
                    \notin {"CooldownActive", "Panic"}
               /\ \A k \in Amounts :
                    /\ submitContributionErr(c, b, k)
                         \notin {"CooldownActive", "Panic"}
                    /\ reportUsageErr(c, b, k)
                         \notin {"CooldownActive", "Panic"})
  /\ [][ calls' # calls =>
           \A c \in Principals : \A n \in CooldownValues :
             (setCooldownSecondsErr(c, n) = "ok" /\ setCooldownSeconds(c, n)) =>
               /\ cooldownSeconds' = n
               /\ lastSubmissionTime' = lastSubmissionTime
               /\ lastDecryptionRequestTime' = lastDecryptionRequestTime
               /\ \A p \in Principals :
                    /\ CooldownCheck(lastSubmissionTime[p])'
                         = CooldownCheckWith(lastSubmissionTime[p], n)
                    /\ CooldownCheck(lastDecryptionRequestTime[p])'
                         = CooldownCheckWith(lastDecryptionRequestTime[p], n)
                    /\ n = 0 =>
                         /\ CooldownCheck(lastSubmissionTime[p])' = "ok"
                         /\ CooldownCheck(lastDecryptionRequestTime[p])' = "ok"
         ]_vars

\* thirty seconds after deployment a batch holds two contributions, which
\* only a cooldown lowered to 0 could let through, and the cooldown is 60
\* again: the principal that submitted in this very block is back under
\* cooldown, by its unchanged recorded time
C33_Witness ==
  \E b \in BatchIds : \E c \in Principals :
    /\ now = 30
    /\ cooldownSeconds = DefaultCooldown
    /\ Len(totalContributionsEncrypted[b].handle) = 3
    /\ lastSubmissionTime[c] = 30
    /\ submitContributionErr(c, b, 1) = "CooldownActive"

(***************************************************************************)
(* C34  transferOwnership that returns changes the owner and nothing       *)
(* else: the provider set, pause flag, cooldown, timestamps, batches,      *)
(* accumulators and contexts are as before.  The provider role of a        *)
(* principal changes only in an addProvider or removeProvider for that     *)
(* principal by the owner, so a former owner that is a provider stays one, *)
(* and the new owner is a provider only if it was added; whoever is a      *)
(* provider, owner or not, passes the provider check of reportUsage, and   *)
(* whoever is not, the owner included, is refused with NotProvider.        *)
(***************************************************************************)
C34_TransferOwnershipFrame ==
  /\ [](\A c \in Principals : \A b \in BatchIds : \A k \in Amounts :
          /\ onlyProvider(c) = (IF isProvider[c] THEN "ok" ELSE "NotProvider")
          /\ (reportUsageErr(c, b, k) = "NotProvider") <=> ~isProvider[c]
          /\ (isProvider[c] /\ ~paused /\ isBatchOpen[b]
                /\ Elapsed(lastSubmissionTime[c]))
               => reportUsageErr(c, b, k) = "ok")
  /\ [][ calls' # calls =>
           /\ \A c, p \in Principals :
                (transferOwnershipErr(c, p) = "ok"
                   /\ transferOwnership(c, p)) =>
                  /\ owner' = p
                  /\ UNCHANGED << isProvider, paused, cooldownSeconds,
                                  lastSubmissionTime,
                                  lastDecryptionRequestTime,
                                  currentBatchId, isBatchOpen,
                                  totalContributionsEncrypted,
                                  totalUsageEncrypted, decryptionContexts,
                                  counterRequest, oracleRequests >>
           /\ \A p \in Principals :
                isProvider'[p] # isProvider[p] =>
                  IF isProvider'[p]
                    THEN /\ addProviderErr(owner, p) = "ok"
                         /\ addProvider(owner, p)
                    ELSE /\ removeProviderErr(owner, p) = "ok"
                         /\ removeProvider(owner, p) ]_vars

\* ownership has moved away from the deployer, and the deployer has
\* reported usage since: it is still a provider, the new owner is not, and
\* the new owner's report is refused
C34_Witness ==
  \E b \in BatchIds :
    /\ owner # Deployer
    /\ isProvider[Deployer]
    /\ ~isProvider[owner]
    /\ isBatchOpen[b]
    /\ Len(totalUsageEncrypted[b].handle) > 1
    /\ lastSubmissionTime[Deployer] > 0
    /\ lastSubmissionTime[owner] = 0
    /\ \A k \in Amounts : reportUsageErr(owner, b, k) = "NotProvider"

====
